---- MODULE Spec2Model ----
(***************************************************************************)
(* Weekly staff scheduling engine: the role schedulers (Manager, Sandwich, *)
(* Cohort for Barista and Waiter), the Orchestrator that runs them,        *)
(* deduplicates and validates, and the callers that persist the result.    *)
(*                                                                         *)
(* Encoding.  A calendar date of the scheduled week is its ISO weekday     *)
(* number 1..7 (Monday = 1), so date order is chronological order and      *)
(* Saturday/Sunday are 6 and 7.  A time of day "HH:MM" is the number of    *)
(* minutes since midnight; durations and the weekly-hours accumulator are  *)
(* kept in minutes, caps and targets of the config are in hours.  An       *)
(* optional value (None) is the empty sequence, a present value v is <<v>>.*)
(***************************************************************************)
EXTENDS Integers, Sequences, FiniteSets, TLC

VARIABLES
    employee_docs,        \* the "employees" collection
    shift_docs,           \* the "shifts" documents of the week
    cfg,                  \* the loaded SchedulerConfig
    caller,               \* "cli" (build_week_schedule) or "api" (run_schedule)
    pc,                   \* position of the run
    scheduler_order,      \* Orchestrator.scheduler_order
    sched_i,              \* index of the running scheduler in scheduler_order
    employees_list,       \* make_schedule: result of get_by_role
    shifts,               \* make_schedule: the sorted shifts it walks
    shift_i,              \* make_schedule: index of the current shift
    slot_idx,             \* make_schedule: current slot index
    needed,               \* make_schedule: requirement of the current shift
    cohort_hours,         \* make_schedule: fairness snapshot of the current shift
    weekly_hours,         \* make_schedule: employee id -> minutes
    assigned_today,       \* make_schedule: date -> set of employee ids
    assignments,          \* make_schedule: assignments of the running scheduler
    all_auto_assignments, \* build_schedule: concatenated scheduler outputs
    deduplicated,         \* build_schedule: the deduplicated list
    returned,             \* what build_schedule returned: <<>> or <<list>>
    error,                \* "none" or the exception that aborted the run
    stored,               \* weeks/{week}/assignments
    stored0,              \* history: stored as it was when the run started
    waived,               \* history: the (role, date) pairs with a skipped slot
    log,                  \* history: the events of the run, in order
    last,                 \* history: the last slot decision
    run_no,               \* history: number of the run on these inputs
    prev_returned,        \* history: what the previous run returned
    weeks,                \* weeks/{week_id}: its assignments and shifts documents
    runs,                 \* the requests in flight: request -> its local state
    serialized            \* whether the caller serializes the runs of one week

vars == <<employee_docs, shift_docs, cfg, caller, pc, scheduler_order, sched_i,
          employees_list, shifts, shift_i, slot_idx, needed,
          cohort_hours, weekly_hours, assigned_today, assignments,
          all_auto_assignments, deduplicated, returned, error, stored, stored0,
          waived, log, last, run_no, prev_returned, weeks, runs, serialized>>

(***************************************************************************)
(* Bounds of the checked instances                                         *)
(***************************************************************************)
\* number of runs performed on the same inputs
MaxRuns == 2
\* largest weekend headcount a config asks for
MaxNeeded == 2
\* longest concatenated list handed to the deduplication on its own
MaxLen == 3
\* largest slot index a time window is resolved for on its own
MaxSlot == 2

(***************************************************************************)
(* Domain                                                                  *)
(***************************************************************************)
Roles == {"MANAGER", "SANDWICH", "BARISTA", "WAITER"}

Dates == 1..7

\* the value of a skill field that is None
NoSkill == -1

\* getattr(cfg, 'global_hard_cap', 50.0): the ceiling named by the schedulers
FixedCeiling == 50

MinutesPerHour == 60

Range(s) == {s[i] : i \in DOMAIN s}

EmptyMap == [x \in {} |-> 0]

Get(m, k, default) == IF k \in DOMAIN m THEN m[k] ELSE default

HM(h, m) == h * MinutesPerHour + m

RECURSIVE SumOver(_, _)
SumOver(f, S) ==
    IF S = {} THEN 0
    ELSE LET x == CHOOSE y \in S : TRUE IN f[x] + SumOver(f, S \ {x})

\* all orderings of a finite set as sequences
Orderings(S) ==
    {s \in [1..Cardinality(S) -> S] : \A i, j \in DOMAIN s : i # j => s[i] # s[j]}

(***************************************************************************)
(* scheduler/services/timeplan.py                                          *)
(* A configured window entry is either a single window ("dict") or an      *)
(* ordered list of windows ("list"); items holds the window(s).            *)
(***************************************************************************)
IsWeekend(d) == d \in {6, 7}

DefaultWindow(c) == <<c.default_shift.start, c.default_shift.end>>

WindowOf(w) == <<w.start, w.end>>

\* the resolver trying the plain weekend window before the staggered list
get_time_window_for_role_PlainFirst(role, shift_date, c, slot_index) ==
    LET role_windows == Get(c.role_time_windows, role, EmptyMap)
        has(k) == k \in DOMAIN role_windows
        listHit(k) == /\ has(k)
                      /\ role_windows[k].kind = "list"
                      /\ slot_index < Len(role_windows[k].items)
        dictHit(k) == has(k) /\ role_windows[k].kind = "dict"
    IN  IF DOMAIN role_windows = {} THEN DefaultWindow(c)
        ELSE IF IsWeekend(shift_date) /\ listHit("weekend")
             THEN WindowOf(role_windows["weekend"].items[slot_index + 1])
        ELSE IF IsWeekend(shift_date) /\ dictHit("weekend")
             THEN WindowOf(role_windows["weekend"].items[1])
        ELSE IF IsWeekend(shift_date) /\ listHit("weekend_staggered")
             THEN WindowOf(role_windows["weekend_staggered"].items[slot_index + 1])
        ELSE IF listHit("weekday")
             THEN WindowOf(role_windows["weekday"].items[slot_index + 1])
        ELSE IF dictHit("weekday")
             THEN WindowOf(role_windows["weekday"].items[1])
        ELSE DefaultWindow(c)

get_time_window_for_role(role, shift_date, c, slot_index) ==
    LET role_windows == Get(c.role_time_windows, role, EmptyMap)
        has(k) == k \in DOMAIN role_windows
        listHit(k) == /\ has(k)
                      /\ role_windows[k].kind = "list"
                      /\ slot_index < Len(role_windows[k].items)
        dictHit(k) == has(k) /\ role_windows[k].kind = "dict"
    IN  IF DOMAIN role_windows = {} THEN DefaultWindow(c)
        ELSE IF IsWeekend(shift_date) /\ listHit("weekend_staggered")
             THEN WindowOf(role_windows["weekend_staggered"].items[slot_index + 1])
        ELSE IF IsWeekend(shift_date) /\ listHit("weekend")
             THEN WindowOf(role_windows["weekend"].items[slot_index + 1])
        ELSE IF IsWeekend(shift_date) /\ dictHit("weekend")
             THEN WindowOf(role_windows["weekend"].items[1])
        ELSE IF listHit("weekday")
             THEN WindowOf(role_windows["weekday"].items[slot_index + 1])
        ELSE IF dictHit("weekday")
             THEN WindowOf(role_windows["weekday"].items[1])
        ELSE DefaultWindow(c)

\* (Timestamp(end) - Timestamp(start)).total_seconds() / 3600, in minutes
ShiftMinutes(w) == w[2] - w[1]

(***************************************************************************)
(* scheduler/services/requirements.py, constraints.py and scoring.py are   *)
(* not part of the examined source; they are rendered from the component   *)
(* design (Demand Resolver, Eligibility Checker, Scoring Engine,           *)
(* Validator).                                                             *)
(***************************************************************************)
build_requirements_for_day(d, c) ==
    IF d \in DOMAIN c.overrides THEN c.overrides[d]
    ELSE IF IsWeekend(d) THEN c.weekend_requirements
    ELSE c.default_requirements

\* effective cap in hours: role hard_cap, else the global cap, else the ceiling
EffectiveCap(role, hours_policy, global_hard_cap) ==
    IF role \in DOMAIN hours_policy /\ "hard_cap" \in DOMAIN hours_policy[role]
    THEN hours_policy[role].hard_cap
    ELSE IF global_hard_cap # <<>> THEN global_hard_cap[1]
    ELSE FixedCeiling

can_assign_employee(emp, role, d, shift_minutes, assigned, wh, hours_policy, global_hard_cap) ==
    /\ emp.employee_id \notin assigned
    /\ emp.primary_role = role
    /\ wh[emp.employee_id] + shift_minutes
          <= EffectiveCap(role, hours_policy, global_hard_cap) * MinutesPerHour

SkillValue(x) == IF x = NoSkill THEN 0 ELSE x

\* weights are held in quarters (0.25 -> 1, 0.5 -> 2, 1.0 -> 4)
calculate_role_fitness(emp, role, weights) ==
      weights.coffee * SkillValue(emp.skill_coffee)
    + weights.sandwich * SkillValue(emp.skill_sandwich)
    + weights.speed * SkillValue(emp.skill_speed)
    + weights.customer_service * SkillValue(emp.customer_service_rating)
    + (IF role = "MANAGER" THEN weights.manager_weight ELSE 0)

RECURSIVE InsertAsc(_, _)
InsertAsc(x, s) ==
    IF s = <<>> THEN <<x>>
    ELSE IF Head(s) <= x THEN <<Head(s)>> \o InsertAsc(x, Tail(s))
    ELSE <<x>> \o s

RECURSIVE SortedValues(_, _)
SortedValues(f, S) ==
    IF S = {} THEN <<>>
    ELSE LET x == CHOOSE y \in S : TRUE IN InsertAsc(f[x], SortedValues(f, S \ {x}))

\* twice the median of the cohort's hours (minutes)
Median2(ch) ==
    LET v == SortedValues(ch, DOMAIN ch)
        n == Len(v)
    IN  IF n = 0 THEN 0
        ELSE IF n % 2 = 1 THEN 2 * v[(n + 1) \div 2]
        ELSE v[n \div 2] + v[n \div 2 + 1]

\* The score times 480: 120 * fitness (quarter weights), the fairness penalty
\* for minutes above the cohort median, and the hours-policy penalty for minutes
\* outside the target band (penalties in quarters per hour).
calculate_employee_score(emp, role, current, ch, weights, hours_policy, hours_penalties) ==
    LET above == 2 * current - Median2(ch)
        fairness == IF above > 0
                    THEN weights.fairness_penalty_per_std_above_median * above
                    ELSE 0
        pol == Get(hours_policy, role, EmptyMap)
        tmin == Get(pol, "target_min", 0) * MinutesPerHour
        tmax == Get(pol, "target_max", FixedCeiling) * MinutesPerHour
        band == IF DOMAIN pol = {} THEN 0
                ELSE IF current < tmin
                     THEN 2 * Get(hours_penalties, "per_hour_below_target", 0) * (tmin - current)
                ELSE IF current > tmax
                     THEN 2 * Get(hours_penalties, "per_hour_above_target", 0) * (current - tmax)
                ELSE 0
    IN  120 * calculate_role_fitness(emp, role, weights) - fairness - band

\* validate_assignment_constraints: hour caps over all roles combined, exact
\* coverage of every configured requirement unless a weekend fallback waives
\* the shortfall, and no repeated (shift, employee) pair
MinutesOf(assigns, emp_id) ==
    LET idx == {i \in DOMAIN assigns : assigns[i].emp_id = emp_id}
        dur == [i \in idx |-> assigns[i].end - assigns[i].start]
    IN  SumOver(dur, idx)

CountOn(assigns, d, role) ==
    Cardinality({i \in DOMAIN assigns : assigns[i].date = d /\ assigns[i].role = role})

NoDuplicatePairs(assigns) ==
    \A i, j \in DOMAIN assigns :
        (assigns[i].shift_id = assigns[j].shift_id /\ assigns[i].emp_id = assigns[j].emp_id)
            => i = j

FallbackWaives(d, role, n, count, c) ==
    LET fb == Get(c.weekend_fallback, role, EmptyMap)
    IN  /\ IsWeekend(d)
        /\ Get(fb, "enabled", FALSE)
        /\ count < n
        /\ count >= Get(fb, "min_required", 1)

CoverageMet(assigns, c) ==
    \A d \in {assigns[i].date : i \in DOMAIN assigns} :
        LET req == build_requirements_for_day(d, c)
        IN  \A role \in DOMAIN req :
                \/ CountOn(assigns, d, role) = req[role]
                \/ FallbackWaives(d, role, req[role], CountOn(assigns, d, role), c)

CapsMet(assigns, emps, c) ==
    \A e \in emps :
        MinutesOf(assigns, e.employee_id)
            <= EffectiveCap(e.primary_role, c.hours_policy, c.global_hard_cap) * MinutesPerHour

validate_assignment_constraints(assigns, emps, c) ==
    /\ CapsMet(assigns, emps, c)
    /\ CoverageMet(assigns, c)
    /\ NoDuplicatePairs(assigns)

(***************************************************************************)
(* scheduler/domain/repositories.py                                        *)
(* stream() fixes no order: a query returns its documents in any order.    *)
(***************************************************************************)
EmployeeRepository_get_by_role(docs, role) ==
    Orderings({e \in docs : e.primary_role = role})

\* sorted(shifts, key=lambda s: s.date) over the streamed documents
ShiftRepository_get_by_week(docs) ==
    {s \in Orderings(docs) : \A i, j \in DOMAIN s : i < j => s[i].date <= s[j].date}

\* a stored assignment document; bulk_create gives each an auto-generated id
RepoDoc(a, run, i) ==
    [doc_id |-> <<"auto", run, i>>, shift_id |-> a.shift_id, emp_id |-> a.emp_id,
     role |-> a.role]

\* the document run_schedule writes for an assignment
ApiDoc(a) ==
    [doc_id |-> <<"key", a.shift_id, a.emp_id>>, shift_id |-> a.shift_id,
     emp_id |-> a.emp_id, role |-> a.role]

AssignmentRepository_bulk_create(coll, assigns, run) ==
    coll \o [i \in DOMAIN assigns |-> RepoDoc(assigns[i], run, i)]

AssignmentRepository_delete_by_week(coll) == <<>>

(***************************************************************************)
(* scheduler/engine: the slot loop shared by the three role schedulers     *)
(***************************************************************************)
\* every scheduler sorting by the date alone
SortKeyByDate(role, sh) == <<0, sh.date>>

\* sort keys: Manager (0 if weekend else 1, date); Sandwich and Cohort the date
SortKey(role, sh) ==
    IF role = "MANAGER" THEN <<IF IsWeekend(sh.date) THEN 0 ELSE 1, sh.date>>
    ELSE <<0, sh.date>>

KeyLE(a, b) == a[1] < b[1] \/ (a[1] = b[1] /\ a[2] <= b[2])

RECURSIVE InsertShift(_, _, _)
InsertShift(role, x, s) ==
    IF s = <<>> THEN <<x>>
    ELSE IF KeyLE(SortKey(role, Head(s)), SortKey(role, x))
         THEN <<Head(s)>> \o InsertShift(role, x, Tail(s))
    ELSE <<x>> \o s

\* sorted(shifts, key=...): stable
RECURSIVE SortShifts(_, _)
SortShifts(role, s) ==
    IF s = <<>> THEN <<>>
    ELSE InsertShift(role, s[Len(s)], SortShifts(role, SubSeq(s, 1, Len(s) - 1)))

\* the slot loop one slot short
NeededForShort(role, d, c) ==
    Get(build_requirements_for_day(d, c), role,
        IF role = "MANAGER" /\ IsWeekend(d) THEN 2 ELSE 1) - 1

\* requirements.get(role, default)
NeededFor(role, d, c) ==
    Get(build_requirements_for_day(d, c), role,
        IF role = "MANAGER" /\ IsWeekend(d) THEN 2 ELSE 1)

\* every slot given the window of the first
SlotWindowFirst(role, d, c, slot) == get_time_window_for_role(role, d, c, 0)

\* the Manager resolves its window once per shift, without a slot index
SlotWindow(role, d, c, slot) ==
    IF role = "MANAGER" THEN get_time_window_for_role(role, d, c, 0)
    ELSE get_time_window_for_role(role, d, c, slot)

Candidates(role, pool, d, minutes, assigned, wh, c) ==
    SelectSeq(pool, LAMBDA emp :
        can_assign_employee(emp, role, d, minutes, assigned, wh,
                            c.hours_policy, c.global_hard_cap))

Scored(role, cands, wh, ch, c) ==
    [i \in DOMAIN cands |->
        <<calculate_employee_score(cands[i], role, wh[cands[i].employee_id], ch,
                                   c.weights, c.hours_policy, c.hours_penalties),
          cands[i]>>]

RECURSIVE InsertScored(_, _)
InsertScored(x, s) ==
    IF s = <<>> THEN <<x>>
    ELSE IF Head(s)[1] >= x[1] THEN <<Head(s)>> \o InsertScored(x, Tail(s))
    ELSE <<x>> \o s

\* scored.sort(key=lambda x: x[0], reverse=True): stable, equal scores keep
\* their order
RECURSIVE SortScored(_)
SortScored(s) ==
    IF s = <<>> THEN <<>>
    ELSE InsertScored(s[Len(s)], SortScored(SubSeq(s, 1, Len(s) - 1)))

\* the pick taken from the wrong end of the sorted list
BestOfLowest(scored) == SortScored(scored)[Len(scored)][2]

BestOf(scored) == SortScored(scored)[1][2]

\* the fallback with the slot index compared strictly
CanSkipStrict(role, d, slot, c) ==
    /\ role \in {"BARISTA", "WAITER"}
    /\ IsWeekend(d)
    /\ LET fb == Get(c.weekend_fallback, role, EmptyMap)
       IN  /\ Get(fb, "enabled", FALSE)
           /\ slot > Get(fb, "min_required", 1)

\* the fallback without the min_required comparison
CanSkipAnySlot(role, d, slot, c) ==
    /\ role \in {"BARISTA", "WAITER"}
    /\ IsWeekend(d)
    /\ Get(Get(c.weekend_fallback, role, EmptyMap), "enabled", FALSE)

\* the weekend fallback of the Cohort scheduler; Manager and Sandwich have none
CanSkip(role, d, slot, c) ==
    /\ role \in {"BARISTA", "WAITER"}
    /\ IsWeekend(d)
    /\ LET fb == Get(c.weekend_fallback, role, EmptyMap)
       IN  /\ Get(fb, "enabled", FALSE)
           /\ slot >= Get(fb, "min_required", 1)

ShiftTypeTag(role, d, slot) ==
    IF role = "MANAGER" THEN (IF IsWeekend(d) THEN <<"weekend">> ELSE <<"weekday">>)
    ELSE IF role = "SANDWICH"
         THEN (IF IsWeekend(d) THEN <<"weekend_prep">> ELSE <<"early_prep">>)
    ELSE (IF IsWeekend(d) THEN <<"weekend_slot", slot + 1>> ELSE <<"weekday">>)

\* the assignment stamped with the default shift instead of the slot's window
MakeAssignmentDefaultShift(role, sh, emp, w, slot) ==
    [shift_id |-> sh.shift_id, emp_id |-> emp.employee_id, date |-> sh.date,
     start |-> cfg.default_shift.start, end |-> cfg.default_shift.end, role |-> role,
     shift_type |-> ShiftTypeTag(role, sh.date, slot),
     day_type |-> IF IsWeekend(sh.date) THEN "weekend" ELSE "weekday"]

MakeAssignment(role, sh, emp, w, slot) ==
    [shift_id |-> sh.shift_id, emp_id |-> emp.employee_id, date |-> sh.date,
     start |-> w[1], end |-> w[2], role |-> role,
     shift_type |-> ShiftTypeTag(role, sh.date, slot),
     day_type |-> IF IsWeekend(sh.date) THEN "weekend" ELSE "weekday"]

(***************************************************************************)
(* scheduler/engine/orchestrator.py                                        *)
(***************************************************************************)
DefaultOrder == <<"MANAGER", "SANDWICH", "BARISTA", "WAITER">>

ApiOrder == <<"MANAGER", "BARISTA", "SANDWICH", "WAITER">>

\* the merge with the seen set never filled
RECURSIVE DedupLoopNoSeen(_, _, _)
DedupLoopNoSeen(rest, seen, out) ==
    IF rest = <<>> THEN out
    ELSE LET a == Head(rest)
             key == <<a.shift_id, a.emp_id>>
         IN  IF key \in seen THEN DedupLoopNoSeen(Tail(rest), seen, out)
             ELSE DedupLoopNoSeen(Tail(rest), seen, Append(out, a))

\* the merge keeping the last record of a pair in the first one's place
RECURSIVE DedupLoopKeepLast(_, _, _)
DedupLoopKeepLast(rest, seen, out) ==
    IF rest = <<>> THEN out
    ELSE LET a == Head(rest)
             key == <<a.shift_id, a.emp_id>>
         IN  IF key \in seen
             THEN DedupLoopKeepLast(Tail(rest), seen,
                      [k \in DOMAIN out |->
                          IF <<out[k].shift_id, out[k].emp_id>> = key THEN a ELSE out[k]])
             ELSE DedupLoopKeepLast(Tail(rest), seen \cup {key}, Append(out, a))

RECURSIVE DedupLoop(_, _, _)
DedupLoop(rest, seen, out) ==
    IF rest = <<>> THEN out
    ELSE LET a == Head(rest)
             key == <<a.shift_id, a.emp_id>>
         IN  IF key \in seen THEN DedupLoop(Tail(rest), seen, out)
             ELSE DedupLoop(Tail(rest), seen \cup {key}, Append(out, a))

\* a merge that drops every later record of the first record's shift
DeduplicatedByShift(all) ==
    IF all = <<>> THEN <<>>
    ELSE <<Head(all)>> \o SelectSeq(Tail(all), LAMBDA a : a.shift_id # Head(all).shift_id)

Deduplicated(all) == DedupLoop(all, {}, <<>>)

(***************************************************************************)
(* Inputs of the checked instances                                         *)
(***************************************************************************)
Emp(id, role, coffee, sandwich, service, speed) ==
    [employee_id |-> id, primary_role |-> role, skill_coffee |-> coffee,
     skill_sandwich |-> sandwich, customer_service_rating |-> service,
     skill_speed |-> speed]

\* always on the roster
CoreEmployees ==
    { Emp(1, "MANAGER", 7, NoSkill, 9, 7),
      Emp(3, "SANDWICH", NoSkill, 9, NoSkill, NoSkill),
      Emp(4, "BARISTA", 9, NoSkill, 7, 8) }

\* on some rosters: a second manager equal in skill to the first, a second
\* barista of lower skill, the only waiter
OptionalEmployees ==
    { Emp(2, "MANAGER", 7, NoSkill, 9, 7),
      Emp(5, "BARISTA", 8, NoSkill, 7, 8),
      Emp(6, "WAITER", 6, NoSkill, 9, 8) }

\* every roster with the waiter, and the core alone (no waiter at all)
Rosters ==
    {CoreEmployees \cup o : o \in {x \in SUBSET OptionalEmployees :
                                     x = {} \/ \E e \in x : e.primary_role = "WAITER"}}

EmpIds == {e.employee_id : e \in CoreEmployees \cup OptionalEmployees}

\* a Friday, two Shift records that share the Saturday, and a Sunday
ShiftPool ==
    { [shift_id |-> 10, date |-> 5],
      [shift_id |-> 11, date |-> 6],
      [shift_id |-> 12, date |-> 6],
      [shift_id |-> 13, date |-> 7] }

\* the weeks: any of Friday and the Saturdays (the second Saturday record only
\* next to the first), or Friday to Sunday one a day
WeekShiftSets ==
    {w \in SUBSET ShiftPool :
        LET ids == {sh.shift_id : sh \in w}
        IN  /\ 12 \in ids => 11 \in ids
            /\ 13 \in ids => ids = {10, 11, 13}}

Win(a, b) == [start |-> a, end |-> b]

One(w) == [kind |-> "dict", items |-> <<w>>]

Many(ws) == [kind |-> "list", items |-> ws]

StaggeredWindows ==
    [r \in Roles |->
        IF r = "SANDWICH"
        THEN [weekday |-> One(Win(HM(5, 0), HM(12, 0))),
              weekend |-> One(Win(HM(5, 0), HM(13, 30)))]
        ELSE IF r = "MANAGER"
        THEN [weekend |-> Many(<<Win(HM(7, 0), HM(15, 0)), Win(HM(9, 0), HM(17, 0))>>)]
        ELSE [weekday |-> One(Win(HM(7, 0), HM(15, 0))),
              weekend_staggered |-> Many(<<Win(HM(7, 0), HM(12, 0)),
                                           Win(HM(11, 0), HM(15, 0))>>)]]

WindowTables == {EmptyMap, StaggeredWindows}

\* a role cap for the managers with a global cap for the rest, or no cap
\* configured at all (with a default shift long enough for three days to pass
\* the fixed ceiling)
CapModes ==
    { [hours_policy |-> [r \in {"MANAGER"} |->
                            [target_min |-> 8, target_max |-> 16, hard_cap |-> 8]],
       global_hard_cap |-> <<12>>,
       default_shift |-> [start |-> HM(7, 0), end |-> HM(15, 0), duration_hours |-> 8]],
      [hours_policy |-> EmptyMap, global_hard_cap |-> <<>>,
       default_shift |-> [start |-> HM(5, 0), end |-> HM(23, 0), duration_hours |-> 18]] }

Fallbacks ==
    { EmptyMap,
      [r \in Roles |-> [enabled |-> TRUE, min_required |-> 1]] }

\* no override; a Friday naming two roles only; a Saturday that needs one
\* manager and one barista and nobody else
Overrides ==
    { EmptyMap,
      [d \in {5} |-> [r \in {"BARISTA", "WAITER"} |-> IF r = "BARISTA" THEN 2 ELSE 0]],
      [d \in {6} |-> [r \in Roles |-> IF r \in {"MANAGER", "BARISTA"} THEN 1 ELSE 0]] }

\* on a weekend one sandwich maker and n of every other role
Configs ==
    { [default_shift |-> cm.default_shift,
       default_requirements |-> [r \in Roles |-> 1],
       weekend_requirements |-> [r \in Roles |-> IF r = "SANDWICH" THEN 1 ELSE n],
       overrides |-> ov,
       role_time_windows |-> wt,
       hours_policy |-> cm.hours_policy,
       global_hard_cap |-> cm.global_hard_cap,
       hours_penalties |-> [per_hour_below_target |-> 2, per_hour_above_target |-> 3],
       weights |-> [manager_weight |-> 4, coffee |-> 4, sandwich |-> 4, speed |-> 2,
                    customer_service |-> 2, fairness_penalty_per_std_above_median |-> 1],
       weekend_fallback |-> fb]
      : n \in 1..MaxNeeded, ov \in Overrides, wt \in WindowTables,
        cm \in CapModes, fb \in Fallbacks }

\* what the week holds before the run: one assignment of an earlier schedule
OldStored ==
    <<[doc_id |-> <<"auto", 0, 1>>, shift_id |-> 10, emp_id |-> 1, role |-> "MANAGER"]>>

NoSlot == [kind |-> "none"]

(***************************************************************************)
(* The run                                                                 *)
(***************************************************************************)
\* no request of the server is in flight and no week document is looked at
NoRequests ==
    /\ weeks = <<>>
    /\ runs = <<>>
    /\ serialized = FALSE

ResetRun ==
    /\ pc' = "start"
    /\ scheduler_order' = <<>>
    /\ sched_i' = 0
    /\ employees_list' = <<>>
    /\ shifts' = <<>>
    /\ shift_i' = 0
    /\ slot_idx' = 0
    /\ needed' = 0
    /\ cohort_hours' = EmptyMap
    /\ weekly_hours' = [e \in EmpIds |-> 0]
    /\ assigned_today' = [d \in Dates |-> {}]
    /\ assignments' = <<>>
    /\ all_auto_assignments' = <<>>
    /\ deduplicated' = <<>>
    /\ returned' = <<>>
    /\ error' = "none"
    /\ stored0' = stored
    /\ waived' = {}
    /\ log' = <<>>
    /\ last' = NoSlot

Init ==
    /\ employee_docs \in Rosters
    /\ shift_docs \in WeekShiftSets
    /\ cfg \in Configs
    /\ caller \in {"cli", "api"}
    /\ pc = "start"
    /\ scheduler_order = <<>>
    /\ sched_i = 0
    /\ employees_list = <<>>
    /\ shifts = <<>>
    /\ shift_i = 0
    /\ slot_idx = 0
    /\ needed = 0
    /\ cohort_hours = EmptyMap
    /\ weekly_hours = [e \in EmpIds |-> 0]
    /\ assigned_today = [d \in Dates |-> {}]
    /\ assignments = <<>>
    /\ all_auto_assignments = <<>>
    /\ deduplicated = <<>>
    /\ returned = <<>>
    /\ error = "none"
    /\ stored = OldStored
    /\ stored0 = OldStored
    /\ waived = {}
    /\ log = <<>>
    /\ last = NoSlot
    /\ run_no = 1
    /\ prev_returned = <<>>
    /\ NoRequests

inputs == <<employee_docs, shift_docs, cfg, caller>>

store == <<weeks, runs, serialized>>

history == <<run_no, prev_returned, stored0>>

walk == <<employees_list, shifts, shift_i, slot_idx, needed, cohort_hours>>

accum == <<weekly_hours, assigned_today, assignments>>

Role == scheduler_order[sched_i]

Shift == shifts[shift_i]

\* Orchestrator(scheduler_order): the CLI passes None, the API its own order
OrchestratorStart ==
    /\ pc = "start"
    /\ scheduler_order' = IF caller = "api" THEN ApiOrder ELSE DefaultOrder
    /\ sched_i' = 1
    /\ all_auto_assignments' = <<>>
    /\ pc' = "make_schedule"
    /\ UNCHANGED <<inputs, store, history, waived, walk, accum, deduplicated, returned, error,
                   stored, log, last>>

\* the exception logged and the run carried on to the merge
RaiseSwallowed(what) ==
    /\ pc' = "dedup"
    /\ error' = what

\* an exception leaves build_schedule and its caller
Raise(what) ==
    /\ pc' = "failed"
    /\ error' = what

\* a scheduler without staff that gives nothing and lets the run go on to the
\* merge
MakeScheduleNoStaffQuiet ==
    /\ pc = "make_schedule"
    /\ EmployeeRepository_get_by_role(employee_docs, Role) = {<<>>}
    /\ log' = Append(log, <<"run", Role>>)
    /\ pc' = "dedup"
    /\ UNCHANGED <<inputs, store, history, waived, walk, accum, scheduler_order, sched_i,
                   all_auto_assignments, deduplicated, returned, error, stored, last>>

\* make_schedule: no staff of the role
MakeScheduleNoStaff ==
    /\ pc = "make_schedule"
    /\ EmployeeRepository_get_by_role(employee_docs, Role) = {<<>>}
    /\ Raise("RuntimeError")
    /\ log' = Append(log, <<"run", Role>>)
    /\ UNCHANGED <<inputs, store, history, waived, walk, accum, scheduler_order, sched_i,
                   all_auto_assignments, deduplicated, returned, stored, last>>

\* make_schedule: no shifts in the week
MakeScheduleNoShifts ==
    /\ pc = "make_schedule"
    /\ EmployeeRepository_get_by_role(employee_docs, Role) # {<<>>}
    /\ shift_docs = {}
    /\ Raise("RuntimeError")
    /\ log' = Append(log, <<"run", Role>>)
    /\ UNCHANGED <<inputs, store, history, waived, walk, accum, scheduler_order, sched_i,
                   all_auto_assignments, deduplicated, returned, stored, last>>

\* the accumulators kept from the scheduler that ran before
CarriedAccumulators ==
    /\ UNCHANGED <<weekly_hours, assigned_today>>
    /\ assignments' = <<>>

\* weekly_hours = defaultdict(float), assigned_today = defaultdict(set),
\* assignments = []: created by every make_schedule call
FreshAccumulators ==
    /\ weekly_hours' = [e \in EmpIds |-> 0]
    /\ assigned_today' = [d \in Dates |-> {}]
    /\ assignments' = <<>>

\* make_schedule up to the shift loop: fresh accumulators, sorted shifts
MakeScheduleBegin ==
    /\ pc = "make_schedule"
    /\ shift_docs # {}
    /\ \E el \in EmployeeRepository_get_by_role(employee_docs, Role) :
         /\ el # <<>>
         /\ employees_list' = el
    /\ \E sh \in ShiftRepository_get_by_week(shift_docs) :
         shifts' = SortShifts(Role, sh)
    /\ FreshAccumulators
    /\ shift_i' = 1
    /\ slot_idx' = 0
    /\ needed' = 0
    /\ cohort_hours' = EmptyMap
    /\ pc' = "shift"
    /\ log' = Append(log, <<"run", Role>>)
    /\ UNCHANGED <<inputs, store, history, waived, scheduler_order, sched_i, all_auto_assignments,
                   deduplicated, returned, error, stored, last>>

\* top of the shift loop: requirement and fairness snapshot of the date
BeginShift ==
    /\ pc = "shift"
    /\ shift_i <= Len(shifts)
    /\ needed' = NeededFor(Role, Shift.date, cfg)
    /\ cohort_hours' = [id \in {e.employee_id : e \in Range(employees_list)} |->
                            weekly_hours[id]]
    /\ slot_idx' = 0
    /\ pc' = "slot"
    /\ UNCHANGED <<inputs, store, history, waived, employees_list, shifts, shift_i, accum,
                   scheduler_order, sched_i, all_auto_assignments, deduplicated,
                   returned, error, stored, log, last>>

SlotCandidates ==
    Candidates(Role, employees_list, Shift.date,
               ShiftMinutes(SlotWindow(Role, Shift.date, cfg, slot_idx)),
               assigned_today[Shift.date], weekly_hours, cfg)

SlotScored == Scored(Role, SlotCandidates, weekly_hours, cohort_hours, cfg)

\* the tracking update without the assigned-today entry
CommitNoToday(emp_id, d, minutes) ==
    /\ weekly_hours' = [weekly_hours EXCEPT ![emp_id] = @ + minutes]
    /\ assigned_today' = assigned_today

\* the tracking update without the hours
CommitNoHours(emp_id, d, minutes) ==
    /\ weekly_hours' = weekly_hours
    /\ assigned_today' = [assigned_today EXCEPT ![d] = @ \cup {emp_id}]

\* the tracking update after an assignment is appended
Commit(emp_id, d, minutes) ==
    /\ weekly_hours' = [weekly_hours EXCEPT ![emp_id] = @ + minutes]
    /\ assigned_today' = [assigned_today EXCEPT ![d] = @ \cup {emp_id}]

\* one slot with a candidate: score, pick, emit, update
SlotAssign ==
    /\ pc = "slot"
    /\ slot_idx < needed
    /\ SlotCandidates # <<>>
    /\ LET w == SlotWindow(Role, Shift.date, cfg, slot_idx)
           best == BestOf(SlotScored)
       IN  /\ assignments' = Append(assignments, MakeAssignment(Role, Shift, best, w, slot_idx))
           /\ Commit(best.employee_id, Shift.date, ShiftMinutes(w))
           /\ last' = [kind |-> "assign", role |-> Role, date |-> Shift.date,
                       slot |-> slot_idx, scored |-> SlotScored,
                       chosen |-> best.employee_id, minutes |-> ShiftMinutes(w)]
    /\ slot_idx' = slot_idx + 1
    /\ UNCHANGED <<inputs, store, history, waived, employees_list, shifts, shift_i, needed,
                   cohort_hours, scheduler_order, sched_i, all_auto_assignments,
                   deduplicated, returned, error, stored, log, pc>>

\* one slot without a candidate, waived by the weekend fallback
SlotSkip ==
    /\ pc = "slot"
    /\ slot_idx < needed
    /\ SlotCandidates = <<>>
    /\ CanSkip(Role, Shift.date, slot_idx, cfg)
    /\ slot_idx' = slot_idx + 1
    /\ last' = [kind |-> "skip", role |-> Role, date |-> Shift.date, slot |-> slot_idx]
    /\ waived' = waived \cup {<<Role, Shift.date>>}
    /\ UNCHANGED <<inputs, store, history, employees_list, shifts, shift_i, needed,
                   cohort_hours, accum, scheduler_order, sched_i,
                   all_auto_assignments, deduplicated, returned, error, stored,
                   log, pc>>

\* one slot without a candidate and without a fallback: insufficient staff
SlotRaise ==
    /\ pc = "slot"
    /\ slot_idx < needed
    /\ SlotCandidates = <<>>
    /\ ~CanSkip(Role, Shift.date, slot_idx, cfg)
    /\ Raise("RuntimeError")
    /\ last' = [kind |-> "raise", role |-> Role, date |-> Shift.date, slot |-> slot_idx,
                msg |-> <<"Cannot assign", Role, Shift.date,
                          "insufficient eligible staff">>]
    /\ UNCHANGED <<inputs, store, history, waived, walk, accum, scheduler_order, sched_i,
                   all_auto_assignments, deduplicated, returned, stored, log>>

\* the slot loop of the shift is exhausted
EndShift ==
    /\ pc = "slot"
    /\ slot_idx >= needed
    /\ shift_i' = shift_i + 1
    /\ pc' = "shift"
    /\ UNCHANGED <<inputs, store, history, waived, employees_list, shifts, slot_idx, needed,
                   cohort_hours, accum, scheduler_order, sched_i,
                   all_auto_assignments, deduplicated, returned, error, stored,
                   log, last>>

\* the scheduler loop ending one scheduler early
AfterSchedulerEarly(i, order) ==
    IF i < Len(order) - 1 THEN <<i + 1, "make_schedule">> ELSE <<i, "dedup">>

\* the scheduler loop of build_schedule: the next scheduler, or on to the merge
AfterScheduler(i, order) ==
    IF i < Len(order) THEN <<i + 1, "make_schedule">> ELSE <<i, "dedup">>

\* make_schedule returns; build_schedule extends the merged list
MakeScheduleReturn ==
    /\ pc = "shift"
    /\ shift_i > Len(shifts)
    /\ all_auto_assignments' = all_auto_assignments \o assignments
    /\ log' = Append(log, <<"ok", Role>>)
    /\ sched_i' = AfterScheduler(sched_i, scheduler_order)[1]
    /\ pc' = AfterScheduler(sched_i, scheduler_order)[2]
    /\ UNCHANGED <<inputs, store, history, waived, walk, accum, scheduler_order, deduplicated,
                   returned, error, stored, last>>

Deduplicate ==
    /\ pc = "dedup"
    /\ deduplicated' = Deduplicated(all_auto_assignments)
    /\ log' = Append(log, <<"dedup", "">>)
    /\ pc' = "validate"
    /\ UNCHANGED <<inputs, store, history, waived, walk, accum, scheduler_order, sched_i,
                   all_auto_assignments, returned, error, stored, last>>

\* the Validator accepts and build_schedule returns the list
ValidateReturn ==
    /\ pc = "validate"
    /\ validate_assignment_constraints(deduplicated, employee_docs, cfg)
    /\ returned' = <<deduplicated>>
    /\ log' = Append(log, <<"validate", "">>)
    /\ pc' = "delete"
    /\ UNCHANGED <<inputs, store, history, waived, walk, accum, scheduler_order, sched_i,
                   all_auto_assignments, deduplicated, error, stored, last>>

\* the Validator rejects
ValidateRaise ==
    /\ pc = "validate"
    /\ ~validate_assignment_constraints(deduplicated, employee_docs, cfg)
    /\ Raise("ValidationError")
    /\ log' = Append(log, <<"validate", "">>)
    /\ UNCHANGED <<inputs, store, history, waived, walk, accum, scheduler_order, sched_i,
                   all_auto_assignments, deduplicated, returned, stored, last>>

\* the caller persists: delete_by_week, then bulk_create
DeleteByWeek ==
    /\ pc = "delete"
    /\ stored' = AssignmentRepository_delete_by_week(stored)
    /\ pc' = "create"
    /\ UNCHANGED <<inputs, store, history, waived, walk, accum, scheduler_order, sched_i,
                   all_auto_assignments, deduplicated, returned, error, log, last>>

BulkCreate ==
    /\ pc = "create"
    /\ stored' = AssignmentRepository_bulk_create(stored, returned[1], run_no)
    /\ pc' = IF caller = "api" THEN "api_save" ELSE "done"
    /\ UNCHANGED <<inputs, store, history, waived, walk, accum, scheduler_order, sched_i,
                   all_auto_assignments, deduplicated, returned, error, log, last>>

\* run_schedule after the repository calls: it clears the week's assignments
\* collection and writes one document per assignment under the id "shift-emp"
ApiSave ==
    /\ pc = "api_save"
    /\ stored' = [i \in DOMAIN returned[1] |-> ApiDoc(returned[1][i])]
    /\ pc' = "done"
    /\ UNCHANGED <<inputs, store, history, waived, walk, accum, scheduler_order, sched_i,
                   all_auto_assignments, deduplicated, returned, error, log, last>>

\* the same inputs are scheduled again
NextRun ==
    /\ pc \in {"done", "failed"}
    /\ run_no < MaxRuns
    /\ run_no' = run_no + 1
    /\ prev_returned' = returned
    /\ ResetRun
    /\ UNCHANGED <<inputs, store, stored>>

Next ==
    \/ OrchestratorStart
    \/ MakeScheduleNoStaff
    \/ MakeScheduleNoShifts
    \/ MakeScheduleBegin
    \/ BeginShift
    \/ SlotAssign
    \/ SlotSkip
    \/ SlotRaise
    \/ EndShift
    \/ MakeScheduleReturn
    \/ Deduplicate
    \/ ValidateReturn
    \/ ValidateRaise
    \/ DeleteByWeek
    \/ BulkCreate
    \/ ApiSave
    \/ NextRun

Spec == Init /\ [][Next]_vars

(***************************************************************************)
(* The deduplication on its own: any concatenated list of up to MaxLen     *)
(* assignments over two Saturday shifts, two employees and two roles is    *)
(* handed to the merge step of build_schedule.                             *)
(***************************************************************************)
RECURSIVE SeqsUpTo(_, _)
SeqsUpTo(S, n) ==
    IF n = 0 THEN {<<>>}
    ELSE LET shorter == SeqsUpTo(S, n - 1)
         IN  shorter \cup {Append(q, x) : q \in {r \in shorter : Len(r) = n - 1}, x \in S}

DedupConfig ==
    CHOOSE c \in Configs :
        /\ 6 \in DOMAIN c.overrides
        /\ c.weekend_requirements["MANAGER"] = 1
        /\ DOMAIN c.role_time_windows = {}
        /\ DOMAIN c.weekend_fallback = {}
        /\ c.global_hard_cap = <<>>

DedupShifts == {sh \in ShiftPool : sh.date = 6}

DedupAssignments ==
    { MakeAssignment(r, sh, e, DefaultWindow(DedupConfig), 0) :
        r \in {"MANAGER", "BARISTA"}, sh \in DedupShifts,
        e \in {x \in CoreEmployees \cup OptionalEmployees : x.primary_role = "MANAGER"} }

InitDedup ==
    /\ employee_docs = CoreEmployees \cup OptionalEmployees
    /\ shift_docs = DedupShifts
    /\ cfg = DedupConfig
    /\ caller = "cli"
    /\ pc = "dedup"
    /\ scheduler_order = DefaultOrder
    /\ sched_i = Len(DefaultOrder)
    /\ employees_list = <<>>
    /\ shifts = <<>>
    /\ shift_i = 0
    /\ slot_idx = 0
    /\ needed = 0
    /\ cohort_hours = EmptyMap
    /\ weekly_hours = [e \in EmpIds |-> 0]
    /\ assigned_today = [d \in Dates |-> {}]
    /\ assignments = <<>>
    /\ all_auto_assignments \in SeqsUpTo(DedupAssignments, MaxLen)
    /\ deduplicated = <<>>
    /\ returned = <<>>
    /\ error = "none"
    /\ stored = OldStored
    /\ stored0 = OldStored
    /\ waived = {}
    /\ log = <<>>
    /\ last = NoSlot
    /\ run_no = 1
    /\ prev_returned = <<>>
    /\ NoRequests

NextDedup ==
    \/ Deduplicate
    \/ ValidateReturn
    \/ ValidateRaise
    \/ DeleteByWeek
    \/ BulkCreate

SpecDedup == InitDedup /\ [][NextDedup]_vars

(***************************************************************************)
(* Properties                                                              *)
(***************************************************************************)
Merged == pc \in {"validate", "delete", "create", "api_save", "done"}

\* C1: the list build_schedule deduplicates and returns holds no two
\* assignments with the same (shift_id, emp_id) pair, whatever the schedulers
\* handed to the merge.
C1_NoDuplicatePairs ==
    /\ Merged => NoDuplicatePairs(deduplicated)
    /\ returned # <<>> => NoDuplicatePairs(returned[1])

\* a list is returned from which the merge removed a repeated pair
C1_Witness ==
    /\ returned # <<>>
    /\ Len(returned[1]) < Len(all_auto_assignments)

NoDoubleBooking(assigns) ==
    \A i, j \in DOMAIN assigns :
        (assigns[i].emp_id = assigns[j].emp_id /\ assigns[i].date = assigns[j].date)
            => i = j

\* C2: no employee has two assignments on one calendar date, in the list of
\* the running scheduler, in the merged list of all schedulers, and in the
\* deduplicated and returned list, also when Shift records share a date.
C2_NoDoubleBooking ==
    /\ NoDoubleBooking(assignments)
    /\ NoDoubleBooking(all_auto_assignments)
    /\ NoDoubleBooking(deduplicated)
    /\ returned # <<>> => NoDoubleBooking(returned[1])

\* two Shift records of one date were staffed for the same role, by two
\* different employees
C2_Witness ==
    /\ Merged
    /\ \E i, j \in DOMAIN deduplicated :
         /\ deduplicated[i].date = deduplicated[j].date
         /\ deduplicated[i].shift_id # deduplicated[j].shift_id
         /\ deduplicated[i].role = deduplicated[j].role

CapOf(e) == EffectiveCap(e.primary_role, cfg.hours_policy, cfg.global_hard_cap) * MinutesPerHour

\* C3: at every point of a run the minutes assigned to an employee, summed over
\* the assignments emitted so far, are at most the effective cap: the role's
\* hard_cap, else the global cap, else the fixed ceiling of 50 hours.
C3_CapRespected ==
    \A e \in employee_docs :
        /\ MinutesOf(assignments, e.employee_id) <= CapOf(e)
        /\ MinutesOf(all_auto_assignments, e.employee_id) <= CapOf(e)
        /\ MinutesOf(deduplicated, e.employee_id) <= CapOf(e)
        /\ weekly_hours[e.employee_id] <= CapOf(e)

\* no cap is configured and an employee holding 36 hours is refused a third
\* 18-hour shift by the fixed ceiling
C3_Witness ==
    /\ cfg.global_hard_cap = <<>>
    /\ DOMAIN cfg.hours_policy = {}
    /\ last.kind = "raise"
    /\ \E e \in employee_docs :
         /\ e.primary_role = last.role
         /\ weekly_hours[e.employee_id] = 36 * MinutesPerHour
         /\ MinutesOf(assignments, e.employee_id) = 36 * MinutesPerHour
         /\ CapOf(e) = FixedCeiling * MinutesPerHour

WeekDates == {sh.date : sh \in shift_docs}

\* C4: in a returned list, every configured requirement N of a role on a date
\* of the week that no fallback waived is covered by exactly N assignments.
C4_Coverage ==
    returned # <<>> =>
        \A d \in WeekDates :
            \A role \in DOMAIN build_requirements_for_day(d, cfg) :
                <<role, d>> \notin waived =>
                    CountOn(returned[1], d, role) = build_requirements_for_day(d, cfg)[role]

\* a returned list covers a weekend requirement of two managers
C4_Witness ==
    /\ returned # <<>>
    /\ \E d \in WeekDates :
         /\ IsWeekend(d)
         /\ NeededFor("MANAGER", d, cfg) = 2
         /\ CountOn(returned[1], d, "MANAGER") = 2

\* C5: two runs on the same roster, shifts and config return the same list,
\* element for element, whatever order the repository returns the employees in.
C5_Determinism ==
    (returned # <<>> /\ prev_returned # <<>>) => returned = prev_returned

MaxScore(scored) ==
    CHOOSE m \in {scored[k][1] : k \in DOMAIN scored} :
        \A k \in DOMAIN scored : scored[k][1] <= m

\* C6: the candidate picked for a slot has the highest score, and among the
\* candidates with that score it has the smallest employee id.
C6_HighestScoreSmallestId ==
    last.kind = "assign" =>
        \E k \in DOMAIN last.scored :
            /\ last.scored[k][2].employee_id = last.chosen
            /\ last.scored[k][1] = MaxScore(last.scored)
            /\ \A m \in DOMAIN last.scored :
                   last.scored[m][1] = MaxScore(last.scored)
                       => last.chosen <= last.scored[m][2].employee_id

PairOf(a) == <<a.shift_id, a.emp_id>>

\* the positions of a list that hold the first record of their pair
FirstOccurrences(all) ==
    {i \in DOMAIN all : \A j \in 1..(i - 1) : PairOf(all[j]) # PairOf(all[i])}

\* the k-th smallest member of a set of positions
KthOf(idx, k) == CHOOSE i \in idx : Cardinality({j \in idx : j < i}) = k - 1

\* C8: the merge keeps, for every (shift_id, emp_id) pair, the record that
\* comes first in the concatenated list, the kept records stay in the order
\* they had in that list, and merging the merged list changes nothing.
C8_FirstOccurrenceKept ==
    Merged =>
        LET idx == FirstOccurrences(all_auto_assignments)
        IN  /\ Len(deduplicated) = Cardinality(idx)
            /\ \A k \in DOMAIN deduplicated :
                   deduplicated[k] = all_auto_assignments[KthOf(idx, k)]
            /\ Deduplicated(deduplicated) = deduplicated

\* a later record of a pair, different from the first one, was dropped
C8_Witness ==
    /\ Merged
    /\ \E i, j \in DOMAIN all_auto_assignments :
           /\ i < j
           /\ PairOf(all_auto_assignments[i]) = PairOf(all_auto_assignments[j])
           /\ all_auto_assignments[i] # all_auto_assignments[j]
           /\ \E k \in DOMAIN deduplicated : deduplicated[k] = all_auto_assignments[i]
           /\ \A k \in DOMAIN deduplicated : deduplicated[k] # all_auto_assignments[j]

IsPrefix(p, q) == Len(p) <= Len(q) /\ \A i \in DOMAIN p : p[i] = q[i]

\* run and completion of each scheduler in turn, then the merge, then the Validator
ExpectedLog(order) ==
    [i \in 1..(2 * Len(order) + 2) |->
        IF i = 2 * Len(order) + 1 THEN <<"dedup", "">>
        ELSE IF i = 2 * Len(order) + 2 THEN <<"validate", "">>
        ELSE IF i % 2 = 1 THEN <<"run", order[(i + 1) \div 2]>>
        ELSE <<"ok", order[i \div 2]>>]

\* C7 as stated: every run goes through Manager, Sandwich, Barista, Waiter in
\* that order, each to completion, then the merge, then the Validator.
C7_FixedOrder == IsPrefix(log, ExpectedLog(DefaultOrder))

\* C7 amended: every run goes through the schedulers in the orchestrator's
\* scheduler_order (Manager, Sandwich, Barista, Waiter for the CLI; Manager,
\* Barista, Sandwich, Waiter for the API), each to completion before the next
\* starts, and the Validator runs only after all four and the merge.
C7_ConfiguredOrder ==
    /\ pc # "start" =>
          scheduler_order = IF caller = "api" THEN ApiOrder ELSE DefaultOrder
    /\ IsPrefix(log, ExpectedLog(scheduler_order))

\* an API run reached the Validator after its four schedulers and the merge
C7_Witness ==
    /\ caller = "api"
    /\ log = ExpectedLog(ApiOrder)

\* C9: when a scheduler or the Validator raises, the run stops there, nothing
\* is returned, and the stored assignments of the week are what they were when
\* the run started.
C9_AllOrNothing ==
    error # "none" =>
        /\ pc = "failed"
        /\ returned = <<>>
        /\ stored = stored0
        /\ log # <<>>
        /\ log[Len(log)] \in {<<"run", Role>>, <<"validate", "">>}
        /\ Cardinality({i \in DOMAIN log : log[i][1] = "run"}) = sched_i

\* a later scheduler raised after earlier ones had produced assignments
C9_Witness ==
    /\ error = "RuntimeError"
    /\ sched_i >= 2
    /\ all_auto_assignments # <<>>
    /\ returned = <<>>
    /\ stored = stored0
    /\ stored # <<>>

FallbackOf(role) == Get(cfg.weekend_fallback, role, EmptyMap)

FallbackApplies(role, slot) ==
    /\ Get(FallbackOf(role), "enabled", FALSE)
    /\ slot >= Get(FallbackOf(role), "min_required", 1)

EmptyPoolSlot == pc = "slot" /\ slot_idx < needed /\ SlotCandidates = <<>>

C11_OnlyFallbackSkips ==
    [][/\ (EmptyPoolSlot /\ ~FallbackApplies(Role, slot_idx)) =>
              /\ pc' = "failed"
              /\ error' = "RuntimeError"
              /\ returned' = <<>>
              /\ assignments' = assignments
              /\ last'.kind = "raise"
              /\ last'.msg[2] = Role
              /\ last'.msg[3] = Shift.date
       /\ (/\ pc = "slot"
           /\ slot_idx < needed
           /\ slot_idx' = slot_idx + 1
           /\ assignments' = assignments) => FallbackApplies(Role, slot_idx)]_vars

\* a barista or waiter slot below min_required found nobody on a weekend and
\* raised, although the fallback is enabled for the role
C11_Witness ==
    /\ last.kind = "raise"
    /\ last.role \in {"BARISTA", "WAITER"}
    /\ IsWeekend(last.date)
    /\ Get(FallbackOf(last.role), "enabled", FALSE)
    /\ last.slot < Get(FallbackOf(last.role), "min_required", 1)
    /\ pc = "failed"

(***************************************************************************)
(* scheduler/config.py: load_config and _validate_config.                  *)
(* Here the "HH:MM" values are kept as the strings the config file holds,  *)
(* one character per element, because _validate_config compares them as    *)
(* strings and the schedulers parse them only later.  A value of           *)
(* role_time_windows that is not a dict is the record [not_dict |-> TRUE]. *)
(***************************************************************************)
\* the characters of a time string in ASCII order: "0" is 48, ":" is 58
Chars == <<"0", "1", "2", "3", "4", "5", "6", "7", "8", "9", ":">>

Ord(ch) == 47 + (CHOOSE i \in DOMAIN Chars : Chars[i] = ch)

\* Python's str < str
RECURSIVE StrLess(_, _)
StrLess(a, b) ==
    IF b = <<>> THEN FALSE
    ELSE IF a = <<>> THEN TRUE
    ELSE IF Ord(Head(a)) # Ord(Head(b)) THEN Ord(Head(a)) < Ord(Head(b))
    ELSE StrLess(Tail(a), Tail(b))

RECURSIVE DigitsValue(_)
DigitsValue(s) ==
    IF s = <<>> THEN 0
    ELSE 10 * DigitsValue(SubSeq(s, 1, Len(s) - 1)) + (Ord(s[Len(s)]) - Ord("0"))

\* pd.Timestamp(f"{date} {hm}"): the time of day in minutes
ParseHM(s) ==
    LET p == CHOOSE i \in DOMAIN s : s[i] = ":"
    IN  HM(DigitsValue(SubSeq(s, 1, p - 1)), DigitsValue(SubSeq(s, p + 1, Len(s))))

IsDict(mapping) == "not_dict" \notin DOMAIN mapping

PolicyKeys == {"target_min", "target_max", "hard_cap"}

\* the checks of _validate_config in their order: the error raised, or "ok"
_validate_config(c) ==
    IF c.default_shift.duration_hours <= 0 THEN "duration_hours"
    ELSE IF ~StrLess(c.default_shift.start, c.default_shift.end) THEN "start_end"
    ELSE IF \E r \in DOMAIN c.default_requirements : c.default_requirements[r] < 0
         THEN "default_requirements"
    ELSE IF \E d \in DOMAIN c.overrides : \E r \in DOMAIN c.overrides[d] :
                c.overrides[d][r] < 0
         THEN "override"
    ELSE IF c.hours_caps.max_hours_per_week_per_employee <= 0 THEN "hours_caps"
    ELSE IF \E r \in DOMAIN c.role_time_windows : ~IsDict(c.role_time_windows[r])
         THEN "role_time_windows"
    ELSE IF \E r \in DOMAIN c.hours_policy : ~(PolicyKeys \subseteq DOMAIN c.hours_policy[r])
         THEN "hours_policy_missing"
    ELSE IF \E r \in DOMAIN c.hours_policy :
                c.hours_policy[r].target_min > c.hours_policy[r].target_max
         THEN "hours_policy_targets"
    ELSE "ok"

\* the config file's defaults (load_config)
DefaultRequirements ==
    [r \in Roles |-> IF r = "BARISTA" THEN 2 ELSE 1]

WeekendRequirements ==
    [r \in Roles |-> IF r \in {"MANAGER", "WAITER"} THEN 2 ELSE 1]

\* an optional value: <<>> is None, <<v>> is the value v
Lookup(m, k) == IF k \in DOMAIN m THEN <<m[k]>> ELSE <<>>

\* Python's truth of a dict-or-None
Truthy(o) == o # <<>> /\ DOMAIN o[1] # {}

\* DayProfile(): multipliers, threshold and availability in hundredths
DayProfile ==
    [coffee |-> 100, sandwich |-> 100, speed |-> 100, customer_service |-> 100,
     threshold |-> 70, traffic |-> "medium", primary |-> "Mixed", availability |-> 80]

\* _to_day_profile: every field the dict lacks takes the dataclass default
_to_day_profile(d) ==
    [f \in DOMAIN DayProfile |-> Get(d, f, DayProfile[f])]

_WD_FROM_IDX == <<"MON", "TUE", "WED", "THU", "FRI", "SAT", "SUN">>

\* str.capitalize() and str.title() of a weekday key give the same spelling
Capitalized ==
    [MON |-> "Mon", TUE |-> "Tue", WED |-> "Wed", THU |-> "Thu",
     FRI |-> "Fri", SAT |-> "Sat", SUN |-> "Sun"]

\* the weekday table load_config seeds
default_weekdays ==
    [k \in Range(_WD_FROM_IDX) |->
        CASE k = "FRI" -> [DayProfile EXCEPT !.traffic = "high", !.coffee = 130,
                              !.speed = 110, !.threshold = 75, !.availability = 90,
                              !.primary = "Coffee"]
          [] k = "SAT" -> [DayProfile EXCEPT !.traffic = "high", !.coffee = 140,
                              !.sandwich = 110, !.speed = 110, !.threshold = 75,
                              !.availability = 95, !.primary = "Coffee"]
          [] k = "SUN" -> [DayProfile EXCEPT !.coffee = 120, !.customer_service = 110,
                              !.availability = 85, !.primary = "Coffee"]
          [] OTHER -> DayProfile]

\* load_config: the demand table of the file, a or b or c over the spellings
LoadDemand(dem_raw) ==
    LET wk_raw == Get(dem_raw, "weekdays", EmptyMap)
        ov_raw == Get(dem_raw, "overrides", EmptyMap)
        supplied(k) ==
            IF Truthy(Lookup(wk_raw, k)) THEN Lookup(wk_raw, k)
            ELSE IF Truthy(Lookup(wk_raw, Capitalized[k])) THEN Lookup(wk_raw, Capitalized[k])
            ELSE Lookup(wk_raw, Capitalized[k])
    IN  [weekdays |-> [k \in Range(_WD_FROM_IDX) |->
                          IF supplied(k) # <<>> THEN _to_day_profile(supplied(k)[1])
                          ELSE default_weekdays[k]],
         overrides |-> [d \in DOMAIN ov_raw |-> _to_day_profile(ov_raw[d])]]

\* resolve_day_profile(cfg, dt, override): dt is the date, override the dict
\* the caller passes or None
resolve_day_profile(c, dt, override) ==
    IF Truthy(override) THEN _to_day_profile(override[1])
    ELSE c.demand.weekdays[_WD_FROM_IDX[dt]]

\* load_config: the SchedulerConfig built from the parsed file, before
\* _validate_config sees it; an empty headcount table takes the defaults
load_config(raw) ==
    LET ds == Get(raw, "default_shift", EmptyMap)
        orDefault(table, dflt) == IF DOMAIN table = {} THEN dflt ELSE table
    IN  [default_shift |->
            [start |-> Get(ds, "start", <<"0", "7", ":", "0", "0">>),
             end |-> Get(ds, "end", <<"1", "5", ":", "0", "0">>),
             duration_hours |-> Get(ds, "duration_hours", 8)],
         default_requirements |->
            orDefault(Get(raw, "default_requirements", EmptyMap), DefaultRequirements),
         overrides |-> Get(raw, "overrides", EmptyMap),
         weekend_requirements |->
            orDefault(Get(raw, "weekend_requirements", EmptyMap), WeekendRequirements),
         hours_caps |-> [max_hours_per_week_per_employee |->
                            Get(Get(raw, "hours_caps", EmptyMap),
                                "max_hours_per_week_per_employee", 40)],
         role_time_windows |-> Get(raw, "role_time_windows", EmptyMap),
         hours_policy |-> Get(raw, "hours_policy", EmptyMap),
         global_hard_cap |-> Get(raw, "global_hard_cap", <<>>),
         weekend_fallback |-> Get(raw, "weekend_fallback", EmptyMap),
         demand |-> LoadDemand(Get(raw, "demand", EmptyMap))]

\* "HH:MM" with a two-digit hour, and "H:MM" as a file may also spell it
HHMM(h, m) ==
    <<Chars[(h \div 10) + 1], Chars[(h % 10) + 1], ":",
      Chars[(m \div 10) + 1], Chars[(m % 10) + 1]>>

HMM(h, m) == <<Chars[h + 1], ":", Chars[(m \div 10) + 1], Chars[(m % 10) + 1]>>

WindowKeys == {"weekday", "weekend", "weekend_staggered"}

\* the single window and the list of windows a key may hold
SingleOf ==
    [weekday |-> Win(HHMM(7, 0), HHMM(15, 0)),
     weekend |-> Win(HHMM(8, 0), HHMM(14, 0)),
     weekend_staggered |-> Win(HHMM(9, 0), HHMM(13, 0))]

ListOf ==
    [weekday |-> <<Win(HHMM(6, 0), HHMM(10, 0)), Win(HHMM(10, 0), HHMM(15, 0))>>,
     weekend |-> <<Win(HHMM(8, 0), HHMM(11, 0)), Win(HHMM(11, 0), HHMM(14, 0))>>,
     weekend_staggered |-> <<Win(HHMM(7, 0), HHMM(12, 0)), Win(HHMM(11, 0), HHMM(15, 0))>>]

\* every table of a role: each key absent, a single window, or a list of two
WindowShapes ==
    { [k \in {x \in WindowKeys : ch[x] # "absent"} |->
          IF ch[k] = "dict" THEN One(SingleOf[k]) ELSE Many(ListOf[k])]
      : ch \in [WindowKeys -> {"absent", "dict", "list"}] }

RawWindowTables ==
    WindowShapes
    \cup { [weekday |-> One(Win(HHMM(15, 0), HHMM(7, 0)))],
           [not_dict |-> TRUE] }

RawPolicies ==
    { [target_min |-> 8, target_max |-> 16, hard_cap |-> 8],
      [target_min |-> 8, target_max |-> 16, hard_cap |-> 0],
      [target_min |-> 8, target_max |-> 16, hard_cap |-> -4],
      [target_min |-> 16, target_max |-> 8, hard_cap |-> 8],
      [target_min |-> 8, target_max |-> 16],
      [target_max |-> 16, hard_cap |-> 8],
      [target_min |-> 8, hard_cap |-> 8] }

\* the demand sections of a file: weekday rows under either spelling, empty
\* rows, and a date-keyed override for Friday
RawDemands ==
    LET rows == { [FRI |-> [coffee |-> 150]],
                  [Fri |-> [primary |-> "Sandwich", traffic |-> "low"]],
                  [FRI |-> EmptyMap],
                  [Fri |-> EmptyMap],
                  [FRI |-> EmptyMap, Fri |-> [speed |-> 90]] }
        ovs  == { [d \in {5} |-> [coffee |-> 200, traffic |-> "low"]],
                  [d \in {6} |-> [sandwich |-> 120]] }
    IN  { [weekdays |-> w] : w \in rows }
        \cup { [overrides |-> o] : o \in ovs }
        \cup { [weekdays |-> w, overrides |-> o] : w \in rows, o \in ovs }

\* the settings a config file may carry, each on top of the defaults
RawSettings ==
    {EmptyMap}
    \cup { [default_shift |-> ds] :
             ds \in { [start |-> HHMM(15, 0), end |-> HHMM(7, 0), duration_hours |-> 8],
                      [start |-> HHMM(7, 0), end |-> HHMM(7, 0), duration_hours |-> 8],
                      [start |-> HHMM(10, 0), end |-> HMM(9, 0), duration_hours |-> 8],
                      [start |-> HMM(9, 0), end |-> HHMM(10, 0), duration_hours |-> 1],
                      [start |-> HHMM(5, 0), end |-> HHMM(23, 0), duration_hours |-> 18],
                      [start |-> HHMM(7, 0), end |-> HHMM(15, 0), duration_hours |-> 0] } }
    \cup { [default_requirements |-> [r \in Roles |-> IF r = bad THEN n ELSE 1]] :
             bad \in {"BARISTA"}, n \in {-1, 0, 3} }
    \cup { [weekend_requirements |-> [r \in Roles |-> IF r = bad THEN n ELSE 1]] :
             bad \in {"WAITER"}, n \in {-1, 0, 3} }
    \cup { [overrides |-> [d \in {5} |-> [r \in {"BARISTA"} |-> n]]] : n \in {-1, 0, 3} }
    \cup { [hours_caps |-> [max_hours_per_week_per_employee |-> n]] : n \in {0, 38} }
    \cup { [role_time_windows |-> [r \in {"BARISTA"} |-> t]] : t \in RawWindowTables }
    \cup { [hours_policy |-> [r \in {"MANAGER"} |-> p]] : p \in RawPolicies }
    \cup { [global_hard_cap |-> <<n>>] : n \in {-1, 0, 12} }
    \cup { [demand |-> dem] : dem \in RawDemands }

RawConfigs == RawSettings

InitConfig ==
    /\ \E raw \in RawConfigs : cfg = load_config(raw)
    /\ pc = "validate_config"
    /\ employee_docs = {}
    /\ shift_docs = {}
    /\ caller = "cli"
    /\ scheduler_order = <<>>
    /\ sched_i = 0
    /\ employees_list = <<>>
    /\ shifts = <<>>
    /\ shift_i = 0
    /\ slot_idx = 0
    /\ needed = 0
    /\ cohort_hours = EmptyMap
    /\ weekly_hours = [e \in EmpIds |-> 0]
    /\ assigned_today = [d \in Dates |-> {}]
    /\ assignments = <<>>
    /\ all_auto_assignments = <<>>
    /\ deduplicated = <<>>
    /\ returned = <<>>
    /\ error = "none"
    /\ stored = OldStored
    /\ stored0 = OldStored
    /\ waived = {}
    /\ log = <<>>
    /\ last = NoSlot
    /\ run_no = 1
    /\ prev_returned = <<>>
    /\ NoRequests

\* _validate_config returns: load_config hands the config to its caller
ValidateConfigReturn ==
    /\ pc = "validate_config"
    /\ _validate_config(cfg) = "ok"
    /\ pc' = "loaded"
    /\ UNCHANGED <<inputs, store, history, waived, walk, accum, scheduler_order, sched_i,
                   all_auto_assignments, deduplicated, returned, error, stored, log, last>>

\* _validate_config raises ValueError: nothing is loaded
ValidateConfigRaise ==
    /\ pc = "validate_config"
    /\ _validate_config(cfg) # "ok"
    /\ pc' = "config_error"
    /\ error' = "ValueError"
    /\ last' = [kind |-> "config_error", msg |-> _validate_config(cfg)]
    /\ UNCHANGED <<inputs, store, history, waived, walk, accum, scheduler_order, sched_i,
                   all_auto_assignments, deduplicated, returned, stored, log>>

\* a scheduler asks for the window of a role, a date and a slot index
ResolveWindow ==
    /\ pc \in {"loaded", "resolved"}
    /\ \E role \in {"MANAGER", "BARISTA"}, d \in {5, 6}, slot \in 0..MaxSlot :
         last' = [kind |-> "window", role |-> role, date |-> d, slot |-> slot,
                  window |-> get_time_window_for_role(role, d, cfg, slot)]
    /\ pc' = "resolved"
    /\ UNCHANGED <<inputs, store, history, waived, walk, accum, scheduler_order, sched_i,
                   all_auto_assignments, deduplicated, returned, error, stored, log>>

\* the override documents a caller may hand to resolve_day_profile
CallerOverrides == {<<>>, <<EmptyMap>>, <<[coffee |-> 120, primary |-> "Service"]>>}

\* the server asks for the day profile of a date (main.py:391, 754, 796)
ResolveDayProfile ==
    /\ pc \in {"loaded", "resolved"}
    /\ \E d \in {4, 5, 6}, override \in CallerOverrides :
         last' = [kind |-> "profile", date |-> d, override |-> override,
                  profile |-> resolve_day_profile(cfg, d, override)]
    /\ pc' = "resolved"
    /\ UNCHANGED <<inputs, store, history, waived, walk, accum, scheduler_order, sched_i,
                   all_auto_assignments, deduplicated, returned, error, stored, log>>

NextConfig ==
    ValidateConfigReturn \/ ValidateConfigRaise \/ ResolveWindow \/ ResolveDayProfile

SpecConfig == InitConfig /\ [][NextConfig]_vars

Loaded == pc \in {"loaded", "resolved"}

Resolved == pc = "resolved" /\ last.kind = "window"

\* C12: every window resolved under a config that load_config accepted has
\* its start before its end.
C12_StartBeforeEnd ==
    Resolved => ParseHM(last.window[1]) < ParseHM(last.window[2])

\* the configured table of the role of the last resolved window
LastTable == Get(cfg.role_time_windows, last.role, EmptyMap)

\* the table has an entry under the key that serves the slot index
Usable(t, k, i) ==
    /\ k \in DOMAIN t
    /\ t[k].kind = "dict" \/ i < Len(t[k].items)

\* that entry's window: the single one, or the list's at the slot index
PickFrom(t, k, i) ==
    IF t[k].kind = "dict" THEN <<t[k].items[1].start, t[k].items[1].end>>
    ELSE <<t[k].items[i + 1].start, t[k].items[i + 1].end>>

StaggeredHit(t, i) ==
    /\ "weekend_staggered" \in DOMAIN t
    /\ t["weekend_staggered"].kind = "list"
    /\ i < Len(t["weekend_staggered"].items)

\* C13: the resolver returns the default window for a role without windows;
\* on a weekend the staggered list's entry at the slot index when there is one,
\* else the plain weekend window; on a weekday the weekday window; it raises
\* nothing and leaves the config as it was.
C13_WindowPrecedence ==
    Resolved =>
        LET t == LastTable
            i == last.slot
            w == last.window
        IN  /\ DOMAIN t = {} =>
                  w = <<cfg.default_shift.start, cfg.default_shift.end>>
            /\ (DOMAIN t # {} /\ IsWeekend(last.date) /\ StaggeredHit(t, i)) =>
                  w = PickFrom(t, "weekend_staggered", i)
            /\ (/\ DOMAIN t # {}
                /\ IsWeekend(last.date)
                /\ ~StaggeredHit(t, i)
                /\ Usable(t, "weekend", i)) => w = PickFrom(t, "weekend", i)
            /\ (DOMAIN t # {} /\ ~IsWeekend(last.date) /\ Usable(t, "weekday", i)) =>
                  w = PickFrom(t, "weekday", i)
            /\ error = "none"
            /\ _validate_config(cfg) = "ok"

\* a weekend slot took the second staggered window although the role has a
\* plain weekend window too
C13_Witness ==
    /\ Resolved
    /\ IsWeekend(last.date)
    /\ last.slot = 1
    /\ StaggeredHit(LastTable, 1)
    /\ Usable(LastTable, "weekend", 1)
    /\ last.window = PickFrom(LastTable, "weekend_staggered", 1)

\* C14: when no rule of the date's day type matches, the resolver returns the
\* default window: on a weekend without a usable staggered or weekend entry,
\* and on a weekday without a usable weekday entry.
C14_UnmatchedIsDefault ==
    Resolved =>
        LET t == LastTable
            i == last.slot
            unmatched == IF IsWeekend(last.date)
                         THEN ~StaggeredHit(t, i) /\ ~Usable(t, "weekend", i)
                         ELSE ~Usable(t, "weekday", i)
        IN  unmatched => last.window = <<cfg.default_shift.start, cfg.default_shift.end>>

\* C19: no config with a negative headcount in the weekday defaults, the
\* weekend defaults or an override is loaded.
C19_NegativeHeadcountRejected ==
    Loaded =>
        /\ \A r \in DOMAIN cfg.default_requirements : cfg.default_requirements[r] >= 0
        /\ \A r \in DOMAIN cfg.weekend_requirements : cfg.weekend_requirements[r] >= 0
        /\ \A d \in DOMAIN cfg.overrides :
              \A r \in DOMAIN cfg.overrides[d] : cfg.overrides[d][r] >= 0

\* C20: no config is loaded with a hard cap of zero or less, for a role or
\* global, nor with an hours-policy entry whose target_min exceeds target_max
\* or that lacks target_min, target_max or hard_cap.
C20_BadCapsRejected ==
    Loaded =>
        /\ \A r \in DOMAIN cfg.hours_policy :
              /\ PolicyKeys \subseteq DOMAIN cfg.hours_policy[r]
              /\ cfg.hours_policy[r].target_min <= cfg.hours_policy[r].target_max
              /\ cfg.hours_policy[r].hard_cap > 0
        /\ cfg.global_hard_cap # <<>> => cfg.global_hard_cap[1] > 0

\* the assignment the last slot decision emitted
Emitted == last.kind = "assign" /\ assignments # <<>>

LastEmitted == assignments[Len(assignments)]

\* C15 as stated: in every scheduler, the Manager included, the assignment of
\* slot i carries the window the resolver returns for (role, date, i) and is
\* charged its duration.
C15_PerSlotWindow ==
    Emitted =>
        LET w == get_time_window_for_role(last.role, last.date, cfg, last.slot)
        IN  /\ <<LastEmitted.start, LastEmitted.end>> = w
            /\ last.minutes = w[2] - w[1]

\* C15 amended: the Sandwich and Cohort schedulers give slot i the window the
\* resolver returns for (role, date, i); the Manager scheduler resolves once
\* per date, at slot index 0, and gives that window to every manager slot of
\* the date; the duration charged is the window's.
C15_WindowOfSlot ==
    Emitted =>
        LET i == IF last.role = "MANAGER" THEN 0 ELSE last.slot
            w == get_time_window_for_role(last.role, last.date, cfg, i)
        IN  /\ LastEmitted.role = last.role
            /\ LastEmitted.date = last.date
            /\ <<LastEmitted.start, LastEmitted.end>> = w
            /\ last.minutes = w[2] - w[1]
            /\ last.slot \in 0..(NeededFor(last.role, last.date, cfg) - 1)

\* the second barista or waiter slot of a weekend took a window other than
\* the first slot's
C15_Witness ==
    /\ Emitted
    /\ last.role \in {"BARISTA", "WAITER"}
    /\ last.slot = 1
    /\ <<LastEmitted.start, LastEmitted.end>>
          # get_time_window_for_role(last.role, last.date, cfg, 0)

\* a cohort role and weekend date of the week with a requirement of two and a
\* configured staggered list of two windows
StaggeredPairs ==
    {rd \in {"BARISTA", "WAITER"} \X WeekDates :
        /\ IsWeekend(rd[2])
        /\ NeededFor(rd[1], rd[2], cfg) = 2
        /\ rd[1] \in DOMAIN cfg.role_time_windows
        /\ "weekend_staggered" \in DOMAIN cfg.role_time_windows[rd[1]]
        /\ cfg.role_time_windows[rd[1]]["weekend_staggered"].kind = "list"
        /\ Len(cfg.role_time_windows[rd[1]]["weekend_staggered"].items) = 2}

StaggeredItems(role) == cfg.role_time_windows[role]["weekend_staggered"].items

\* positions of a list holding the assignments of a role on a date
PositionsOf(assigns, role, d) ==
    {i \in DOMAIN assigns : assigns[i].role = role /\ assigns[i].date = d}

\* C16 as stated: such a role and date gets two assignments, to two different
\* employees, with the two configured windows, which are distinct and do not
\* overlap in time.
C16_StaggeredDisjoint ==
    returned # <<>> =>
        \A rd \in StaggeredPairs :
            LET out == returned[1]
                pos == PositionsOf(out, rd[1], rd[2])
                ws == StaggeredItems(rd[1])
            IN  /\ Cardinality(pos) = 2
                /\ \E i, j \in pos :
                      /\ i < j
                      /\ out[i].emp_id # out[j].emp_id
                      /\ <<out[i].start, out[i].end>> = <<ws[1].start, ws[1].end>>
                      /\ <<out[j].start, out[j].end>> = <<ws[2].start, ws[2].end>>
                      /\ <<out[i].start, out[i].end>> # <<out[j].start, out[j].end>>
                      /\ out[i].end <= out[j].start \/ out[j].end <= out[i].start

\* C16 amended: in a run that returns, such a role and date of which no slot
\* was skipped by the fallback gets two assignments, to two different
\* employees, the first with the first configured window and the second with
\* the second; whether those windows are distinct or overlap is the config's
\* choice.
C16_StaggeredPair ==
    returned # <<>> =>
        \A rd \in StaggeredPairs :
            rd \notin waived =>
                LET out == returned[1]
                    pos == PositionsOf(out, rd[1], rd[2])
                    ws == StaggeredItems(rd[1])
                IN  /\ Cardinality(pos) = 2
                    /\ \E i, j \in pos :
                          /\ i < j
                          /\ out[i].emp_id # out[j].emp_id
                          /\ <<out[i].start, out[i].end>> = <<ws[1].start, ws[1].end>>
                          /\ <<out[j].start, out[j].end>> = <<ws[2].start, ws[2].end>>

\* a returned list holds the two staggered baristas of a Saturday
C16_Witness ==
    /\ returned # <<>>
    /\ <<"BARISTA", 6>> \in StaggeredPairs
    /\ <<"BARISTA", 6>> \notin waived
    /\ Cardinality(PositionsOf(returned[1], "BARISTA", 6)) = 2

InScheduler == pc \in {"shift", "slot"}

\* the dates of a list come weekend first, ascending within weekend and weekday
WeekendFirst(s) ==
    \A i, j \in DOMAIN s :
        i < j => /\ IsWeekend(s[j].date) => IsWeekend(s[i].date)
                 /\ (IsWeekend(s[i].date) <=> IsWeekend(s[j].date))
                        => s[i].date <= s[j].date

Chronological(s) == \A i, j \in DOMAIN s : i < j => s[i].date <= s[j].date

\* C17: the Manager scheduler walks every Saturday and Sunday of the week, in
\* ascending date order, before any weekday, so no weekday manager assignment
\* precedes a weekend one; the Sandwich and Cohort schedulers walk the dates
\* and emit their assignments in ascending date order.
C17_ProcessingOrder ==
    InScheduler =>
        /\ Range(shifts) = shift_docs
        /\ Len(shifts) = Cardinality(shift_docs)
        /\ IF Role = "MANAGER"
           THEN WeekendFirst(shifts) /\ WeekendFirst(assignments)
           ELSE Chronological(shifts) /\ Chronological(assignments)

\* the Manager scheduler has assigned the Friday after a weekend date
C17_Witness ==
    /\ InScheduler
    /\ Role = "MANAGER"
    /\ \E i, j \in DOMAIN assignments :
          /\ i < j
          /\ IsWeekend(assignments[i].date)
          /\ ~IsWeekend(assignments[j].date)

\* C18: while a role scheduler runs, weekly_hours[e] is the sum of the
\* durations of the assignments it has emitted for e and assigned_today[d] is
\* the set of employees it has assigned on d: both start empty in every
\* scheduler of every run and change only with an emitted assignment.
C18_AccumulatorsMatchEmitted ==
    InScheduler =>
        /\ \A e \in EmpIds : weekly_hours[e] = MinutesOf(assignments, e)
        /\ \A d \in Dates :
              assigned_today[d] =
                  {assignments[i].emp_id : i \in {k \in DOMAIN assignments :
                                                     assignments[k].date = d}}
        /\ \A i \in DOMAIN assignments : assignments[i].role = Role

\* a later scheduler skipped a slot after emitting an assignment of its own,
\* earlier schedulers having emitted theirs
C18_Witness ==
    /\ InScheduler
    /\ sched_i >= 2
    /\ all_auto_assignments # <<>>
    /\ assignments # <<>>
    /\ last.kind = "skip"
    /\ run_no = 2

(***************************************************************************)
(* Day profiles (SpecConfig)                                               *)
(***************************************************************************)
ProfileResolved == pc = "resolved" /\ last.kind = "profile"

\* C21: the day profile resolved for a date is the config's date-keyed demand
\* override of that date when the config has one, and otherwise the row of
\* the weekday table for the date's weekday (asked without a caller-supplied
\* override document, as main.py:391 and :796 ask).
C21_DayProfileFromConfig ==
    (ProfileResolved /\ ~Truthy(last.override)) =>
        last.profile = IF last.date \in DOMAIN cfg.demand.overrides
                       THEN cfg.demand.overrides[last.date]
                       ELSE cfg.demand.weekdays[_WD_FROM_IDX[last.date]]

(***************************************************************************)
(* The manager scoring scenario (SpecScore): weeks of two managers equal   *)
(* in skill in which one of them comes to a weekday slot with 30 hours and *)
(* the other with 10.                                                      *)
(***************************************************************************)
\* two managers equal in skill, and on some rosters a third of lower skill
ScoreRosters ==
    LET pair == {Emp(1, "MANAGER", 7, NoSkill, 9, 7), Emp(2, "MANAGER", 7, NoSkill, 9, 7)}
    IN  {pair, pair \cup {Emp(5, "MANAGER", 5, NoSkill, 6, 6)}}

\* two Shift records on the Saturday, a Sunday, a Monday and a Tuesday
ScoreShiftPool ==
    { [shift_id |-> 11, date |-> 6], [shift_id |-> 12, date |-> 6],
      [shift_id |-> 13, date |-> 7], [shift_id |-> 14, date |-> 1],
      [shift_id |-> 15, date |-> 2] }

ScoreWeeks ==
    { {sh \in ScoreShiftPool : sh.shift_id \in ids} :
        ids \in { {15}, {14, 15}, {11, 12, 14, 15}, {11, 13, 14, 15} } }

\* one manager per shift; a weekend window of 10 hours and a weekday window of
\* 20; no hours policy, one whose band holds 10 and 30 hours, and the
\* full-time target of 38 to 40 hours; the fairness weight 0.25 or 0
ScoreConfigs ==
    { [default_shift |-> [start |-> HM(7, 0), end |-> HM(15, 0), duration_hours |-> 8],
       default_requirements |-> [r \in Roles |-> 1],
       weekend_requirements |-> [r \in Roles |-> 1],
       overrides |-> EmptyMap,
       role_time_windows |->
           [r \in {"MANAGER"} |-> [weekday |-> One(Win(HM(2, 0), HM(22, 0))),
                                   weekend |-> One(Win(HM(7, 0), HM(17, 0)))]],
       hours_policy |-> hp,
       global_hard_cap |-> <<>>,
       hours_penalties |-> [per_hour_below_target |-> 2, per_hour_above_target |-> 3],
       weights |-> [manager_weight |-> 4, coffee |-> 4, sandwich |-> 4, speed |-> 2,
                    customer_service |-> 2, fairness_penalty_per_std_above_median |-> fw],
       weekend_fallback |-> EmptyMap]
      : fw \in {0, 1},
        hp \in { EmptyMap,
                 [r \in {"MANAGER"} |-> [target_min |-> 10, target_max |-> 30, hard_cap |-> 50]],
                 [r \in {"MANAGER"} |-> [target_min |-> 38, target_max |-> 40, hard_cap |-> 50]] } }

InitScore ==
    /\ employee_docs \in ScoreRosters
    /\ shift_docs \in ScoreWeeks
    /\ cfg \in ScoreConfigs
    /\ caller \in {"cli", "api"}
    /\ pc = "start"
    /\ scheduler_order = <<>>
    /\ sched_i = 0
    /\ employees_list = <<>>
    /\ shifts = <<>>
    /\ shift_i = 0
    /\ slot_idx = 0
    /\ needed = 0
    /\ cohort_hours = EmptyMap
    /\ weekly_hours = [e \in EmpIds |-> 0]
    /\ assigned_today = [d \in Dates |-> {}]
    /\ assignments = <<>>
    /\ all_auto_assignments = <<>>
    /\ deduplicated = <<>>
    /\ returned = <<>>
    /\ error = "none"
    /\ stored = OldStored
    /\ stored0 = OldStored
    /\ waived = {}
    /\ log = <<>>
    /\ last = NoSlot
    /\ run_no = 1
    /\ prev_returned = <<>>
    /\ NoRequests

\* the Manager scheduler runs to its end; the next scheduler finds no staff
NextScore ==
    \/ OrchestratorStart
    \/ MakeScheduleBegin
    \/ BeginShift
    \/ SlotAssign
    \/ EndShift
    \/ MakeScheduleReturn
    \/ MakeScheduleNoStaff

SpecScore == InitScore /\ [][NextScore]_vars

\* hours held before the last pick
HoursBefore(e) == weekly_hours[e] - (IF e = last.chosen THEN last.minutes ELSE 0)

ScoreOf(e) == (CHOOSE x \in Range(last.scored) : x[2].employee_id = e)[1]

\* the scenario: a weekday needing one manager has just been filled from two
\* candidates of equal skill, a with 30 hours and b with 10
Scenario(a, b) ==
    /\ pc = "slot"
    /\ last.kind = "assign"
    /\ last.role = "MANAGER"
    /\ ~IsWeekend(last.date)
    /\ needed = 1
    /\ {x[2].employee_id : x \in Range(last.scored)} = {a, b}
    /\ \E x, y \in Range(last.scored) :
          /\ x[2].employee_id = a
          /\ y[2].employee_id = b
          /\ calculate_role_fitness(x[2], "MANAGER", cfg.weights)
                = calculate_role_fitness(y[2], "MANAGER", cfg.weights)
    /\ HoursBefore(a) = 30 * MinutesPerHour
    /\ HoursBefore(b) = 10 * MinutesPerHour

NeutralPolicy ==
    /\ cfg.weights.fairness_penalty_per_std_above_median > 0
    /\ \/ "MANAGER" \notin DOMAIN cfg.hours_policy
       \/ /\ cfg.hours_policy["MANAGER"].target_min <= 10
          /\ cfg.hours_policy["MANAGER"].target_max >= 30

WeekIds == {"W1", "W2"}

Requests == {1, 2}

\* the slot loop of one shift (cohort.py:95-167): st is the accumulators, the
\* list emitted so far and whether the call is still running
RECURSIVE SlotLoop(_, _, _, _, _, _, _)
SlotLoop(role, pool, sh, c, ch, slot, st) ==
    IF ~st.ok \/ slot >= NeededFor(role, sh.date, c) THEN st
    ELSE LET w == SlotWindow(role, sh.date, c, slot)
             cands == Candidates(role, pool, sh.date, ShiftMinutes(w),
                                 st.at[sh.date], st.wh, c)
             best == BestOf(Scored(role, cands, st.wh, ch, c))
         IN  IF cands = <<>>
             THEN IF CanSkip(role, sh.date, slot, c)
                  THEN SlotLoop(role, pool, sh, c, ch, slot + 1, st)
                  ELSE [st EXCEPT !.ok = FALSE]
             ELSE SlotLoop(role, pool, sh, c, ch, slot + 1,
                    [ok |-> TRUE,
                     wh |-> [st.wh EXCEPT ![best.employee_id] = @ + ShiftMinutes(w)],
                     at |-> [st.at EXCEPT ![sh.date] = @ \cup {best.employee_id}],
                     out |-> Append(st.out, MakeAssignment(role, sh, best, w, slot))])

\* the shift loop (cohort.py:81-167)
RECURSIVE ShiftLoop(_, _, _, _, _, _)
ShiftLoop(role, pool, shs, c, i, st) ==
    IF ~st.ok \/ i > Len(shs) THEN st
    ELSE ShiftLoop(role, pool, shs, c, i + 1,
            SlotLoop(role, pool, shs[i], c,
                     [id \in {e.employee_id : e \in Range(pool)} |-> st.wh[id]], 0, st))

\* make_schedule as a whole, from the accumulators acc: raises (ok = FALSE)
\* without staff or shifts, or when a slot cannot be filled
make_schedule(role, pool, shs, c, acc) ==
    IF pool = <<>> \/ shs = <<>>
    THEN [ok |-> FALSE, wh |-> acc.wh, at |-> acc.at, out |-> <<>>]
    ELSE ShiftLoop(role, pool, SortShifts(role, shs), c, 1,
                   [ok |-> TRUE, wh |-> acc.wh, at |-> acc.at, out |-> <<>>])

ZeroAccumulators == [wh |-> [e \in EmpIds |-> 0], at |-> [d \in Dates |-> {}]]

\* the accumulators of the call that ran last, as module-level state would
\* hand them on
SharedAccumulators == [wh |-> weekly_hours, at |-> assigned_today]

\* weekly_hours = defaultdict(float), assigned_today = defaultdict(set): locals
\* of every call
LocalAccumulators == ZeroAccumulators

\* one collection for the assignments of all weeks
SharedCollection(week_id) == "W1"

\* client.collection("weeks").document(week_id).collection("assignments")
_get_week_assignments_collection(week_id) == week_id

\* the ids of the documents list(collection.stream()) returns
DocIds(coll) == {d.doc_id : d \in coll}

\* a delete batch that commits nothing
BatchDeleteNone(coll, ids) == coll

\* batch.delete(doc.reference) for every document read, then commit
BatchDelete(coll, ids) == {d \in coll : d.doc_id \notin ids}

\* batch.set(doc_ref, data), then commit: a document replaces the one of its id
BatchSet(coll, docs) == {d \in coll : d.doc_id \notin DocIds(docs)} \cup docs

\* the documents bulk_create writes for a list, each under a generated id
RepoDocs(assigns, r) == {RepoDoc(assigns[i], r, i) : i \in DOMAIN assigns}

\* the document run_day writes for an assignment
DayDoc(a) ==
    [doc_id |-> <<"key", a.shift_id, a.emp_id>>, shift_id |-> a.shift_id,
     emp_id |-> a.emp_id, role |-> a.role, isManual |-> FALSE]

\* the document create_manual_assignment writes (no start and end time given)
ManualDoc(p) ==
    [doc_id |-> <<"manual", p.shiftId, p.employeeId>>, shift_id |-> p.shiftId,
     emp_id |-> p.employeeId, role |-> p.role, isManual |-> TRUE]

\* the document of weeks/{week_id}/shifts written for a shift
ViewDoc(s) == [doc_id |-> s.shift_id, shiftId |-> s.shift_id, date |-> s.date]

\* run_day deleting every assignment of the week
DayToDeleteAll(coll, day_shift_ids) == coll

\* run_day: the stored assignments whose shiftId is one of the day's shifts
DayToDelete(coll, day_shift_ids) == {d \in coll : d.shift_id \in day_shift_ids}

\* the "shifts" collection: a Friday and a Saturday of W1, a Saturday of W2
StoreShifts ==
    { [shift_id |-> 10, date |-> 5, week_id |-> "W1"],
      [shift_id |-> 11, date |-> 6, week_id |-> "W1"],
      [shift_id |-> 20, date |-> 6, week_id |-> "W2"] }

\* one manager, one sandwich maker, two baristas, one waiter
StoreRoster == {e \in CoreEmployees \cup OptionalEmployees : e.employee_id # 2}

\* Fridays need a manager and a barista, Saturdays a manager and a waiter
StoreConfig ==
    [default_shift |-> [start |-> HM(7, 0), end |-> HM(15, 0), duration_hours |-> 8],
     default_requirements |-> [r \in Roles |-> 1],
     weekend_requirements |-> [r \in Roles |-> 1],
     overrides |->
         [d \in {5, 6} |->
             [r \in Roles |->
                 IF r = "MANAGER" \/ (d = 5 /\ r = "BARISTA") \/ (d = 6 /\ r = "WAITER")
                 THEN 1 ELSE 0]],
     role_time_windows |-> EmptyMap,
     hours_policy |-> EmptyMap,
     global_hard_cap |-> <<>>,
     hours_penalties |-> [per_hour_below_target |-> 2, per_hour_above_target |-> 3],
     weights |-> [manager_weight |-> 4, coffee |-> 4, sandwich |-> 4, speed |-> 2,
                  customer_service |-> 2, fairness_penalty_per_std_above_median |-> 1],
     weekend_fallback |-> EmptyMap]

\* what the weeks hold before any request: assignments of an earlier schedule
\* under generated ids, and the shift documents of W1
OldWeeks ==
    [w \in WeekIds |->
        IF w = "W1"
        THEN [assignments |->
                 { [doc_id |-> <<"auto", 0, 1>>, shift_id |-> 10, emp_id |-> 1,
                    role |-> "MANAGER"],
                   [doc_id |-> <<"auto", 0, 2>>, shift_id |-> 11, emp_id |-> 5,
                    role |-> "BARISTA"] },
              shifts |-> { [doc_id |-> 10, shiftId |-> 10, date |-> 5],
                           [doc_id |-> 11, shiftId |-> 11, date |-> 6] }]
        ELSE [assignments |->
                 { [doc_id |-> <<"auto", 0, 3>>, shift_id |-> 20, emp_id |-> 4,
                    role |-> "BARISTA"] },
              shifts |-> {}]]

\* the requests: build_week_schedule for a week, run_schedule for a week,
\* run_day for a date of W1 (no shift falls on the Sunday), and a manual
\* assignment of barista 5 to a shift of W1
RequestShapes ==
    { [op |-> "cli", week |-> w] : w \in WeekIds }
    \cup { [op |-> "api", week |-> w] : w \in WeekIds }
    \cup { [op |-> "day", week |-> "W1", date |-> d] : d \in {5, 6, 7} }
    \cup { [op |-> "manual", week |-> "W1",
            payload |-> [shiftId |-> s, employeeId |-> 5, role |-> "BARISTA"]]
           : s \in {10, 11} }

\* a request before it starts
Idle(shape) ==
    [req |-> shape, pc |-> "idle", sched_i |-> 0, all |-> <<>>, out |-> <<>>,
     docs |-> {}, day_shift_ids |-> {}, after |-> {}]

InitStore ==
    /\ employee_docs = StoreRoster
    /\ shift_docs = StoreShifts
    /\ cfg = StoreConfig
    /\ caller = "cli"
    /\ pc = "requests"
    /\ scheduler_order = <<>>
    /\ sched_i = 0
    /\ employees_list = <<>>
    /\ shifts = <<>>
    /\ shift_i = 0
    /\ slot_idx = 0
    /\ needed = 0
    /\ cohort_hours = EmptyMap
    /\ weekly_hours = ZeroAccumulators.wh
    /\ assigned_today = ZeroAccumulators.at
    /\ assignments = <<>>
    /\ all_auto_assignments = <<>>
    /\ deduplicated = <<>>
    /\ returned = <<>>
    /\ error = "none"
    /\ stored = <<>>
    /\ stored0 = <<>>
    /\ waived = {}
    /\ log = <<>>
    /\ last = NoSlot
    /\ run_no = 1
    /\ prev_returned = <<>>
    /\ weeks = OldWeeks
    /\ runs \in [Requests -> {Idle(s) : s \in RequestShapes}]
    /\ serialized \in BOOLEAN

\* everything a request leaves alone
storeFrame ==
    <<inputs, history, waived, walk, assignments, scheduler_order, sched_i,
      all_auto_assignments, deduplicated, returned, error, stored, log, last, pc,
      serialized>>

InFlight(q) == runs[q].pc \notin {"idle", "done", "failed"}

\* every request started whatever else is in flight
CanStartAlways(r) == TRUE

\* when a request may start: nothing in the engine or the handlers locks, so
\* requests overlap freely unless the caller serializes those of one week
CanStart(r) ==
    \A q \in Requests \ {r} :
        InFlight(q) => (runs[q].req.week # runs[r].req.week \/ ~serialized)

OrderOf(r) == IF runs[r].req.op = "cli" THEN DefaultOrder ELSE ApiOrder

WeekOf(r) == runs[r].req.week

\* the request enters its handler
StoreStart(r) ==
    /\ runs[r].pc = "idle"
    /\ CanStart(r)
    /\ runs' = [runs EXCEPT
                  ![r].pc = IF runs[r].req.op = "manual" THEN "manual" ELSE "make_schedule",
                  ![r].sched_i = 1,
                  ![r].after = {q \in Requests : runs[q].pc \in {"done", "failed"}}]
    /\ UNCHANGED <<weeks, weekly_hours, assigned_today, storeFrame>>

\* build_schedule: one role scheduler runs from its reads to its return
StoreMakeSchedule(r) ==
    /\ runs[r].pc = "make_schedule"
    /\ LET role == OrderOf(r)[runs[r].sched_i]
           after == AfterScheduler(runs[r].sched_i, OrderOf(r))
       IN  \E el \in EmployeeRepository_get_by_role(employee_docs, role),
              shs \in ShiftRepository_get_by_week(
                         {s \in shift_docs : s.week_id = WeekOf(r)}) :
             LET res == make_schedule(role, el, shs, cfg, LocalAccumulators)
             IN  /\ weekly_hours' = res.wh
                 /\ assigned_today' = res.at
                 /\ runs' = IF res.ok
                            THEN [runs EXCEPT ![r].all = @ \o res.out,
                                              ![r].sched_i = after[1],
                                              ![r].pc = after[2]]
                            ELSE [runs EXCEPT ![r].pc = "failed"]
    /\ UNCHANGED <<weeks, storeFrame>>

\* build_schedule: deduplicate, validate, return
StoreReturn(r) ==
    /\ runs[r].pc = "dedup"
    /\ LET d == Deduplicated(runs[r].all)
       IN  runs' = IF validate_assignment_constraints(d, employee_docs, cfg)
                   THEN [runs EXCEPT ![r].out = <<d>>,
                                     ![r].pc = IF runs[r].req.op = "day"
                                               THEN "day_filter" ELSE "delete"]
                   ELSE [runs EXCEPT ![r].pc = "failed"]
    /\ UNCHANGED <<weeks, weekly_hours, assigned_today, storeFrame>>

\* delete_by_week: docs = list(collection.stream())
DeleteByWeekStream(r) ==
    /\ runs[r].pc = "delete"
    /\ runs' = [runs EXCEPT
                  ![r].docs = DocIds(weeks[_get_week_assignments_collection(WeekOf(r))]
                                        .assignments),
                  ![r].pc = "delete_commit"]
    /\ UNCHANGED <<weeks, weekly_hours, assigned_today, storeFrame>>

\* delete_by_week: the batch of deletes commits
DeleteByWeekCommit(r) ==
    /\ runs[r].pc = "delete_commit"
    /\ weeks' = [weeks EXCEPT ![_get_week_assignments_collection(WeekOf(r))].assignments =
                                  BatchDelete(@, runs[r].docs)]
    /\ runs' = [runs EXCEPT ![r].pc = "create"]
    /\ UNCHANGED <<weekly_hours, assigned_today, storeFrame>>

\* bulk_create: the batch of sets commits
BulkCreateCommit(r) ==
    /\ runs[r].pc = "create"
    /\ weeks' = [weeks EXCEPT ![_get_week_assignments_collection(WeekOf(r))].assignments =
                                  BatchSet(@, RepoDocs(runs[r].out[1], r))]
    /\ runs' = [runs EXCEPT ![r].pc = IF runs[r].req.op = "cli" THEN "done"
                                      ELSE "api_clear"]
    /\ UNCHANGED <<weekly_hours, assigned_today, storeFrame>>

\* ShiftRepository.get_by_id for each shift id of the assignments
ShiftsNamed(assigns) ==
    {s \in shift_docs : \E i \in DOMAIN assigns : assigns[i].shift_id = s.shift_id}

\* run_schedule: every document of the week's shifts and assignments is deleted
ApiClear(r) ==
    /\ runs[r].pc = "api_clear"
    /\ weeks' = [weeks EXCEPT ![WeekOf(r)] = [assignments |-> {}, shifts |-> {}]]
    /\ runs' = [runs EXCEPT ![r].pc = "api_shifts"]
    /\ UNCHANGED <<weekly_hours, assigned_today, storeFrame>>

\* run_schedule: the shift documents of the assigned shifts are written
ApiSaveShifts(r) ==
    /\ runs[r].pc = "api_shifts"
    /\ weeks' = [weeks EXCEPT ![WeekOf(r)].shifts =
                    BatchSet(@, {ViewDoc(s) : s \in ShiftsNamed(runs[r].out[1])})]
    /\ runs' = [runs EXCEPT ![r].pc = "api_assignments"]
    /\ UNCHANGED <<weekly_hours, assigned_today, storeFrame>>

\* run_schedule: the assignment documents are written under "{shift}-{emp}"
ApiSaveAssignments(r) ==
    /\ runs[r].pc = "api_assignments"
    /\ weeks' = [weeks EXCEPT ![WeekOf(r)].assignments =
                    BatchSet(@, {ApiDoc(runs[r].out[1][i]) : i \in DOMAIN runs[r].out[1]})]
    /\ runs' = [runs EXCEPT ![r].pc = "done"]
    /\ UNCHANGED <<weekly_hours, assigned_today, storeFrame>>

\* run_day: the assigned shifts of the requested date; none ends the request
DayFilter(r) ==
    /\ runs[r].pc = "day_filter"
    /\ LET ids == {s.shift_id : s \in {x \in ShiftsNamed(runs[r].out[1]) :
                                          x.date = runs[r].req.date}}
       IN  runs' = [runs EXCEPT ![r].day_shift_ids = ids,
                                ![r].pc = IF ids = {} THEN "done" ELSE "day_shifts"]
    /\ UNCHANGED <<weeks, weekly_hours, assigned_today, storeFrame>>

\* run_day: the date's shift documents are deleted and written again
DaySaveShifts(r) ==
    /\ runs[r].pc = "day_shifts"
    /\ weeks' = [weeks EXCEPT ![WeekOf(r)].shifts =
                    BatchSet({v \in @ : v.date # runs[r].req.date},
                             {ViewDoc(s) : s \in {x \in shift_docs :
                                 x.shift_id \in runs[r].day_shift_ids}})]
    /\ runs' = [runs EXCEPT ![r].pc = "day_assignments"]
    /\ UNCHANGED <<weekly_hours, assigned_today, storeFrame>>

\* run_day: the assignments of the day's shifts are deleted and the day's
\* assignments written
DaySaveAssignments(r) ==
    /\ runs[r].pc = "day_assignments"
    /\ LET ids == runs[r].day_shift_ids
           day_assignments == SelectSeq(runs[r].out[1], LAMBDA a : a.shift_id \in ids)
       IN  weeks' = [weeks EXCEPT ![WeekOf(r)].assignments =
                        BatchSet(@ \ DayToDelete(@, ids),
                                 {DayDoc(day_assignments[i]) : i \in DOMAIN day_assignments})]
    /\ runs' = [runs EXCEPT ![r].pc = "done"]
    /\ UNCHANGED <<weekly_hours, assigned_today, storeFrame>>

\* create_manual_assignment: the employee exists, the document is set
ManualCreate(r) ==
    /\ runs[r].pc = "manual"
    /\ \E e \in employee_docs : e.employee_id = runs[r].req.payload.employeeId
    /\ weeks' = [weeks EXCEPT ![WeekOf(r)].assignments =
                    BatchSet(@, {ManualDoc(runs[r].req.payload)})]
    /\ runs' = [runs EXCEPT ![r].pc = "done"]
    /\ UNCHANGED <<weekly_hours, assigned_today, storeFrame>>

NextStore ==
    \E r \in Requests :
        \/ StoreStart(r)
        \/ StoreMakeSchedule(r)
        \/ StoreReturn(r)
        \/ DeleteByWeekStream(r)
        \/ DeleteByWeekCommit(r)
        \/ BulkCreateCommit(r)
        \/ ApiClear(r)
        \/ ApiSaveShifts(r)
        \/ ApiSaveAssignments(r)
        \/ DayFilter(r)
        \/ DaySaveShifts(r)
        \/ DaySaveAssignments(r)
        \/ ManualCreate(r)

SpecStore == InitStore /\ [][NextStore]_vars

\* r is a run of build_week_schedule(persist=True)
IsBuild(r) == runs[r].req.op = "cli"

\* no other request for r's week overlapped r: each is still to start or had
\* finished when r started
Alone(r) ==
    \A q \in Requests \ {r} :
        WeekOf(q) = WeekOf(r) => (runs[q].pc = "idle" \/ q \in runs[r].after)

\* C23: every step of a build_week_schedule(persist=True) run for week W leaves
\* the documents of the other weeks as they were, and when the run finishes
\* with no request for W overlapping it, the stored assignments of W are
\* exactly the returned list: nothing older remains and each returned
\* assignment is stored once.
C23_ReplaceByWeek ==
    [][\A r \in Requests :
          (IsBuild(r) /\ runs'[r] # runs[r]) =>
              /\ \A w \in WeekIds \ {WeekOf(r)} : weeks'[w] = weeks[w]
              /\ (runs'[r].pc = "done" /\ Alone(r)) =>
                    /\ weeks'[WeekOf(r)].assignments = RepoDocs(runs[r].out[1], r)
                    /\ Cardinality(weeks'[WeekOf(r)].assignments) = Len(runs[r].out[1])
                    /\ \A i \in DOMAIN runs[r].out[1] :
                          Cardinality({d \in weeks'[WeekOf(r)].assignments :
                                          /\ d.shift_id = runs[r].out[1][i].shift_id
                                          /\ d.emp_id = runs[r].out[1][i].emp_id}) = 1]_vars

\* a run for W1 finished alone: the two older assignments are gone, the
\* returned ones are stored, W2 holds what it held
C23_Witness ==
    \E r \in Requests :
        /\ IsBuild(r) /\ runs[r].pc = "done" /\ Alone(r)
        /\ WeekOf(r) = "W1"
        /\ Len(runs[r].out[1]) > 1
        /\ weeks["W1"].assignments = RepoDocs(runs[r].out[1], r)
        /\ weeks["W1"].assignments \cap OldWeeks["W1"].assignments = {}
        /\ weeks["W2"] = OldWeeks["W2"]

\* what one role scheduler can give for a week, over the orders in which the
\* employees and the shifts may be streamed to it
RoleOutcomes(role, week_shifts) ==
    { LET res == make_schedule(role, el, shs, cfg, ZeroAccumulators)
      IN  [ok |-> res.ok, out |-> res.out]
      : el \in EmployeeRepository_get_by_role(employee_docs, role),
        shs \in ShiftRepository_get_by_week(week_shifts) }

\* the scheduler loop of build_schedule: the lists extended scheduler by
\* scheduler, an error of one being the error of the run
RECURSIVE BuildLoop(_, _, _, _)
BuildLoop(order, i, week_shifts, sts) ==
    IF i > Len(order) THEN sts
    ELSE BuildLoop(order, i + 1, week_shifts,
                   { IF st.ok /\ res.ok
                     THEN [ok |-> TRUE, out |-> st.out \o res.out]
                     ELSE [ok |-> FALSE, out |-> <<>>]
                     : st \in sts, res \in RoleOutcomes(order[i], week_shifts) })

\* what build_schedule gives for a week when nothing else runs: the returned
\* list, or nothing when it raises
SoloOutcomes(week_shifts, order) ==
    { LET d == Deduplicated(st.out)
      IN  IF st.ok /\ validate_assignment_constraints(d, employee_docs, cfg)
          THEN <<d>> ELSE <<>>
      : st \in BuildLoop(order, 1, week_shifts, {[ok |-> TRUE, out |-> <<>>]}) }

Finished(r) == runs[r].pc \in {"done", "failed"}

\* C24: when two build_week_schedule runs for different weeks interleave, each
\* ends as it would have alone: it returns a list it could have returned
\* running alone, and the stored assignments of its week are that list.
C24_DifferentWeeksIndependent ==
    \A r, q \in Requests :
        (IsBuild(r) /\ IsBuild(q) /\ WeekOf(r) # WeekOf(q) /\ Finished(r)) =>
            /\ runs[r].out \in SoloOutcomes({s \in shift_docs : s.week_id = WeekOf(r)},
                                            DefaultOrder)
            /\ runs[r].pc = "done" =>
                   weeks[WeekOf(r)].assignments = RepoDocs(runs[r].out[1], r)

\* two runs for different weeks overlapped (neither had finished when the
\* other started) and both are done
C24_Witness ==
    \E r, q \in Requests :
        /\ IsBuild(r) /\ IsBuild(q) /\ WeekOf(r) # WeekOf(q)
        /\ runs[r].pc = "done" /\ runs[q].pc = "done"
        /\ q \notin runs[r].after /\ r \notin runs[q].after
        /\ runs[r].out[1] # <<>> /\ runs[q].out[1] # <<>>
        /\ weeks[WeekOf(r)].assignments = RepoDocs(runs[r].out[1], r)
        /\ weeks[WeekOf(q)].assignments = RepoDocs(runs[q].out[1], q)

\* r created a manual assignment and q, a run_schedule or run_day for the same
\* week, started after r had finished and succeeded
RescheduledAfter(r, q) ==
    /\ runs[r].req.op = "manual" /\ runs[r].pc = "done"
    /\ runs[q].req.op \in {"api", "day"} /\ runs[q].pc = "done"
    /\ WeekOf(q) = WeekOf(r)
    /\ r \in runs[q].after

\* C25: a manual assignment created for week W is still stored, with isManual
\* true, after a later successful run_schedule or run_day for W.
C25_ManualPersists ==
    \A r, q \in Requests :
        RescheduledAfter(r, q) =>
            ManualDoc(runs[r].req.payload) \in weeks[WeekOf(r)].assignments

DateOfShift(id) == (CHOOSE s \in shift_docs : s.shift_id = id).date

\* the assignment documents of a collection that belong to another date
OtherDateAssignments(coll, date) == {d \in coll : DateOfShift(d.shift_id) # date}

\* C26: every step of run_day(W, D) leaves the assignment documents and the
\* shift documents of W's other dates, and the other weeks, as they were.
C26_RunDayTouchesOnlyItsDate ==
    [][\A r \in Requests :
          (runs[r].req.op = "day" /\ runs'[r] # runs[r]) =>
              /\ OtherDateAssignments(weeks'[WeekOf(r)].assignments, runs[r].req.date)
                    = OtherDateAssignments(weeks[WeekOf(r)].assignments, runs[r].req.date)
              /\ {v \in weeks'[WeekOf(r)].shifts : v.date # runs[r].req.date}
                    = {v \in weeks[WeekOf(r)].shifts : v.date # runs[r].req.date}
              /\ \A w \in WeekIds \ {WeekOf(r)} : weeks'[w] = weeks[w]]_vars

\* run_day for the Friday is done: the Friday's older assignment is replaced
\* by the day's, the Saturday's documents are the ones stored before
C26_Witness ==
    \E r \in Requests :
        /\ runs[r].req.op = "day" /\ runs[r].req.date = 5 /\ runs[r].pc = "done"
        /\ runs[r].day_shift_ids = {10}
        /\ \A q \in Requests \ {r} : runs[q].pc = "idle"
        /\ OtherDateAssignments(weeks["W1"].assignments, 5)
              = OtherDateAssignments(OldWeeks["W1"].assignments, 5)
        /\ OtherDateAssignments(weeks["W1"].assignments, 5) # {}
        /\ \E d \in weeks["W1"].assignments : d.shift_id = 10 /\ d = DayDoc([shift_id |-> 10, emp_id |-> d.emp_id, role |-> d.role])
        /\ \A d \in weeks["W1"].assignments : d.shift_id = 10 => d \notin OldWeeks["W1"].assignments
        /\ {v \in weeks["W1"].shifts : v.date # 5} = {v \in OldWeeks["W1"].shifts : v.date # 5}

\* two finished runs of build_week_schedule for one week
TwoBuilds(r, q) ==
    /\ r # q /\ IsBuild(r) /\ IsBuild(q) /\ WeekOf(r) = WeekOf(q)
    /\ runs[r].pc = "done" /\ runs[q].pc = "done"
    /\ runs[r].out[1] # <<>> /\ runs[q].out[1] # <<>>

\* the week holds the assignments of both runs
HoldsBoth(r, q) ==
    RepoDocs(runs[r].out[1], r) \cup RepoDocs(runs[q].out[1], q)
        \subseteq weeks[WeekOf(r)].assignments

\* C27: when the caller serializes the runs of one week, the stored
\* assignments of the week never hold the assignments of two runs together.
C27_SerializedNeverBoth ==
    serialized => \A r, q \in Requests : TwoBuilds(r, q) => ~HoldsBoth(r, q)

\* unserialized, two runs for one week interleaved delete_by_week and
\* bulk_create: the week holds both runs' assignments, which is neither
\* run's list, and a (shift, employee) pair is stored twice
C27_Witness ==
    /\ ~serialized
    /\ \E r, q \in Requests :
          /\ TwoBuilds(r, q) /\ HoldsBoth(r, q)
          /\ weeks[WeekOf(r)].assignments # RepoDocs(runs[r].out[1], r)
          /\ weeks[WeekOf(r)].assignments # RepoDocs(runs[q].out[1], q)
          /\ \E d, e \in weeks[WeekOf(r)].assignments :
                d # e /\ d.shift_id = e.shift_id /\ d.emp_id = e.emp_id

\* the scheduler's own role pool
RolePool == {e.employee_id : e \in employee_docs} \cap
            {e.employee_id : e \in {x \in employee_docs : x.primary_role = Role}}

\* the hours an employee held before the date of the shift being filled
HoursBeforeDate(id) ==
    weekly_hours[id]
        - MinutesOf(SelectSeq(assignments, LAMBDA a : a.date = Shift.date), id)

\* C28: while the slots of a date are filled, the cohort-hours map holds
\* exactly the employees of the scheduler's role pool, each with the hours
\* held before that date, also those chosen for an earlier slot of the date.
C28_CohortSnapshotPerDate ==
    pc = "slot" =>
        /\ DOMAIN cohort_hours = RolePool
        /\ \A id \in RolePool : cohort_hours[id] = HoursBeforeDate(id)

\* the role has no employee, or the week no shift
NothingToSchedule(role) ==
    \/ \A e \in employee_docs : e.primary_role # role
    \/ shift_docs = {}

\* C30: a role scheduler started for a role without employees, or on a week
\* without shifts, raises at once: the run has failed with its error, nothing
\* is returned, no later scheduler ran and no slot of the role was looked at.
C30_NothingToScheduleAborts ==
    \A i \in DOMAIN log :
        (log[i][1] = "run" /\ NothingToSchedule(log[i][2])) =>
            /\ i = Len(log)
            /\ pc = "failed"
            /\ error = "RuntimeError"
            /\ returned = <<>>
            /\ "role" \in DOMAIN last => last.role # log[i][2]

\* the run aborted at the waiters' scheduler: nobody on the roster is a
\* waiter, and no date of the week requires one
C30_Witness ==
    /\ pc = "failed"
    /\ log # <<>>
    /\ log[Len(log)] = <<"run", "WAITER">>
    /\ \A e \in employee_docs : e.primary_role # "WAITER"
    /\ shift_docs # {}
    /\ \A s \in shift_docs : NeededFor("WAITER", s.date, cfg) = 0
    /\ all_auto_assignments # <<>>

\* the weeks of the order runs: a Friday, a Saturday, both, or two Shift
\* records that share the Saturday
OrderWeeks == {w \in WeekShiftSets : w # {} /\ \A sh \in w : sh.shift_id # 13}

\* one of every role on a weekend, no window table, no cap, no fallback
OrderConfigs ==
    {c \in Configs : /\ c.weekend_requirements["MANAGER"] = 1
                     /\ c.role_time_windows = EmptyMap
                     /\ c.global_hard_cap = <<>>
                     /\ c.weekend_fallback = EmptyMap}

InitOrder ==
    /\ employee_docs \in Rosters
    /\ shift_docs \in OrderWeeks
    /\ cfg \in OrderConfigs
    /\ caller = "cli"
    /\ pc = "start"
    /\ scheduler_order = <<>>
    /\ sched_i = 0
    /\ employees_list = <<>>
    /\ shifts = <<>>
    /\ shift_i = 0
    /\ slot_idx = 0
    /\ needed = 0
    /\ cohort_hours = EmptyMap
    /\ weekly_hours = [e \in EmpIds |-> 0]
    /\ assigned_today = [d \in Dates |-> {}]
    /\ assignments = <<>>
    /\ all_auto_assignments = <<>>
    /\ deduplicated = <<>>
    /\ returned = <<>>
    /\ error = "none"
    /\ stored = OldStored
    /\ stored0 = OldStored
    /\ waived = {}
    /\ log = <<>>
    /\ last = NoSlot
    /\ run_no = 1
    /\ prev_returned = <<>>
    /\ NoRequests

\* Orchestrator(scheduler_order) with any order of the four roles
OrchestratorAnyOrder ==
    /\ pc = "start"
    /\ scheduler_order' \in Orderings(Roles)
    /\ sched_i' = 1
    /\ pc' = "make_schedule"
    /\ UNCHANGED <<inputs, store, history, waived, walk, accum, all_auto_assignments,
                   deduplicated, returned, error, stored, log, last>>

\* build_schedule under the order, up to its return
NextOrder ==
    \/ OrchestratorAnyOrder
    \/ MakeScheduleNoStaff
    \/ MakeScheduleBegin
    \/ BeginShift
    \/ SlotAssign
    \/ SlotRaise
    \/ EndShift
    \/ MakeScheduleReturn
    \/ Deduplicate
    \/ ValidateReturn
    \/ ValidateRaise

SpecOrder == InitOrder /\ [][NextOrder]_vars

\* what build_schedule gives as a set: the assignments, or nothing on an error
AsSet(outcome) == IF outcome = <<>> THEN <<>> ELSE <<Range(outcome[1])>>

\* C29: under any order of the four role schedulers, with every employee in
\* one role, build_schedule ends as it can end under the default order (the
\* same set of assignments, or an error where the default order gives one),
\* the returned list holds each assignment once, and the deduplication
\* removes nothing.
C29_OrderIndependent ==
    /\ pc \in {"validate", "delete"} => deduplicated = all_auto_assignments
    /\ pc \in {"delete", "failed"} =>
          AsSet(returned) \in {AsSet(x) : x \in SoloOutcomes(shift_docs, DefaultOrder)}
    /\ pc = "delete" => Cardinality(Range(returned[1])) = Len(returned[1])

\* a schedule was returned under an order other than the CLI's and the
\* API's: the list is ordered otherwise than the default order's, the
\* assignments are the same
C29_Witness ==
    /\ pc = "delete"
    /\ scheduler_order \notin {DefaultOrder, ApiOrder}
    /\ Len(returned[1]) > 2
    /\ returned \notin SoloOutcomes(shift_docs, DefaultOrder)
    /\ AsSet(returned) \in {AsSet(x) : x \in SoloOutcomes(shift_docs, DefaultOrder)}

====
